---- MODULE Spec2Model ----
(***************************************************************************)
(* A model of loom's execution engine: the thread set with its vector      *)
(* clocks (rt/thread.rs), the atomic store histories (rt/atomic.rs), the   *)
(* object store (rt/object.rs), the branch / synchronize entry points      *)
(* (rt/mod.rs) and the iteration loop of Builder::check (model.rs).        *)
(* VersionVec, Synchronize, Path and Execution::schedule are modelled from *)
(* their description in the design document.                               *)
(***************************************************************************)
EXTENDS Integers, Sequences, FiniteSets, TLC

VARIABLES
    threads,    \* rt::thread::Set: [threads, active, seq_cst_causality]
    objects,    \* rt::object::Store: entries, indexed from 0
    path,       \* rt::Path: [branches, pos]
    frames,     \* per thread: the call the thread is suspended in
    status,     \* "running", "complete", "panic", "finished", "stopped"
    iter,       \* Builder::check: the iteration counter i
    closure,    \* the closure under check: "any" or the name of a script
    last,       \* the operation that completed last, with what it returned
    stlog,      \* history: who wrote each store, with which ordering and clock
    hb,         \* history: the stores that happen before each thread (hb.t)
                \* and before the latest SeqCst operation (hb.sc)
    sclog,      \* history: join of the causalities SeqCst operations started with
    explored,   \* history: the decision logs of the iterations that completed
    builder,    \* model::Builder: [max_branches, max_permutations,
                \* checkpoint_interval]
    replay      \* history: what each sequence of decisions was seen to lead to

vars == <<threads, objects, path, frames, status, iter, closure, last, stlog,
          hb, sclog, explored, builder, replay>>

-----------------------------------------------------------------------------
(* Bounds and configuration *)

\* Builder::max_threads by default, the width of every vector clock
max_threads == 2

\* Builder::max_threads where three threads are needed
FenceThreads == 3

\* Builder::max_branches, the number of decisions one run may take
max_branches == 10

\* Builder::max_branches where the closure under check only schedules
SchedBranches == 4

\* Scheduling decisions the run of an arbitrary closure is followed for; an
\* operation that was scheduled within them runs to its end
MaxDecisions == 5

\* Objects one run may create
MaxObjects == 1

\* Times one thread may call yield_now in one run
MaxYield == 1

\* Depth to which one thread may nest calls of critical
MaxNest == 2

\* Entries of an object store accessed through typed references
MaxEntries == 2

\* max_branches of the runs of a closure that locks a mutex
MutexBranches == 6

\* max_branches of the runs of the closure that moves causality
CausalBranches == 14

\* max_branches of the runs of a closure that blocks on a future
FutureBranches == 5

\* Polls within which the future of block_on is ready
MaxPolls == 3

\* The values a future resolves to
MaxValue == 1

\* Largest Builder::max_permutations set
MaxPermutations == 2

\* Largest Builder::checkpoint_interval set
MaxInterval == 4

-----------------------------------------------------------------------------
(* Option<T> *)

None == <<>>
Some(v) == <<v>>
is_some(o) == o # None
unwrap(o) == o[1]

(* Vec<T>, indexed from 0 *)

len(v) == Cardinality(DOMAIN v)
EmptyVec == [i \in {} |-> 0]
push(v, x) == [i \in 0..len(v) |-> IF i < len(v) THEN v[i] ELSE x]
Max2(a, b) == IF a >= b THEN a ELSE b

-----------------------------------------------------------------------------
(* std::sync::atomic::Ordering *)

Orderings == {"Relaxed", "Release", "Acquire", "AcqRel", "SeqCst"}

\* is_seq_cst gone wrong: every ordering counts as SeqCst
is_seq_cst_any(order) == TRUE

is_seq_cst(order) == order = "SeqCst"

-----------------------------------------------------------------------------
(* VersionVec *)

\* Set::max, the capacity the thread set of the execution was built with
capacity == builder.max_threads

Tids == 0..(capacity - 1)

VersionVec_new(n) == [i \in 0..(n - 1) |-> 0]

\* self <= other, pointwise
vv_le(a, b) == \A i \in DOMAIN a : a[i] <= b[i]

vv_join(a, b) == [i \in DOMAIN a |-> Max2(a[i], b[i])]

vv_inc(a, id) == [a EXCEPT ![id] = @ + 1]

-----------------------------------------------------------------------------
(* rt::thread::Thread and rt::thread::Set *)

Thread_new ==
    [state |-> "Runnable", critical |-> FALSE, operation |-> None,
     causality |-> VersionVec_new(capacity),
     dpor_vv |-> VersionVec_new(capacity),
     last_yield |-> None, yield_count |-> 0]

Set_new ==
    [threads |-> push(EmptyVec, Thread_new), active |-> Some(0),
     seq_cst_causality |-> VersionVec_new(capacity)]

\* Set::new_thread gone wrong: the new thread is pushed blocked
new_thread_blocked(S) ==
    [S EXCEPT !.threads = push(@, [Thread_new EXCEPT !.state = "Blocked"])]

\* Set::new_thread once its assertion has passed
new_thread(S) == [S EXCEPT !.threads = push(@, Thread_new)]

active_id(S) == unwrap(S.active)

active(S) == S.threads[active_id(S)]

\* Execution::new_thread: the new thread starts from what its spawner has
\* observed
Execution_new_thread(S) ==
    LET id == len(S.threads)
        S1 == new_thread(S)
    IN  [S1 EXCEPT !.threads[id].causality = vv_join(@, active(S).causality),
                   !.threads[id].dpor_vv = vv_join(@, active(S).dpor_vv)]

\* Thread::is_runnable gone wrong: whatever its state, a thread may run
is_runnable_any(th) == TRUE

is_runnable(th) == th.state = "Runnable"

is_yield(th) == th.state = "Yield"

\* is_terminated gone wrong: a parked thread counts as finished
is_terminated_or_blocked(th) == th.state \in {"Terminated", "Blocked"}

is_terminated(th) == th.state = "Terminated"

is_blocked(th) == th.state = "Blocked"

\* Thread::set_blocked gone wrong: the thread stays as it is
set_blocked_not(th) == th

set_blocked(th) == [th EXCEPT !.state = "Blocked"]

\* Thread::unpark gone wrong: th forgets what it had seen
Thread_unpark_assign(th, unparker) ==
    [th EXCEPT !.causality = unparker.causality,
               !.state = IF is_blocked(th) \/ is_yield(th)
                         THEN "Runnable" ELSE @]

\* Thread::unpark gone wrong: th is made runnable whatever its state
Thread_unpark_always(th, unparker) ==
    [th EXCEPT !.causality = vv_join(@, unparker.causality),
               !.state = "Runnable"]

\* Thread::unpark: th learns what its unparker has seen and may run again
Thread_unpark(th, unparker) ==
    [th EXCEPT !.causality = vv_join(@, unparker.causality),
               !.state = IF is_blocked(th) \/ is_yield(th)
                         THEN "Runnable" ELSE @]

\* Set::unpark: unparking oneself does nothing
Set_unpark(S, id) ==
    IF id = active_id(S) THEN S
    ELSE [S EXCEPT !.threads[id] = Thread_unpark(@, active(S))]

\* Execution::set_critical and unset_critical on the flag of the active thread
set_critical(S) == [S EXCEPT !.threads[active_id(S)].critical = TRUE]

unset_critical(S) == [S EXCEPT !.threads[active_id(S)].critical = FALSE]

set_yield(th, id) ==
    [th EXCEPT !.state = "Yield", !.last_yield = Some(th.causality[id]),
               !.yield_count = @ + 1]

active_causality_inc(S) ==
    [S EXCEPT !.threads[active_id(S)].causality = vv_inc(@, active_id(S))]

active_atomic_version(S) == active(S).causality[active_id(S)]

\* Set::seq_cst gone wrong: the global vector learns of the active thread, the
\* thread learns nothing
seq_cst_oneway(S) ==
    [S EXCEPT !.seq_cst_causality =
                  vv_join(@, S.threads[active_id(S)].causality)]

\* Set::seq_cst: the active thread and the global vector join each other
seq_cst(S) ==
    LET a == active_id(S)
        c == vv_join(S.threads[a].causality, S.seq_cst_causality)
    IN  [S EXCEPT !.threads[a].causality = c,
                  !.seq_cst_causality = vv_join(@, c)]

-----------------------------------------------------------------------------
(* rt::Synchronize *)

Synchronize_new == [happens_before |-> VersionVec_new(capacity)]

version_vec(sync) == sync.happens_before

sync_acq(sync, S) ==
    [S EXCEPT !.threads[active_id(S)].causality = vv_join(@, sync.happens_before)]

sync_rel(sync, S) ==
    [sync EXCEPT !.happens_before = vv_join(@, active(S).causality)]

\* The thread set after the load side of a transfer
sync_load(sync, S, order) ==
    CASE order \in {"Relaxed", "Release"} -> S
      [] order \in {"Acquire", "AcqRel"} -> sync_acq(sync, S)
      [] order = "SeqCst" -> seq_cst(sync_acq(sync, S))

\* [sync, threads] after the store side of a transfer
sync_store(sync, S, order) ==
    CASE order \in {"Relaxed", "Acquire"} -> [sync |-> sync, threads |-> S]
      [] order \in {"Release", "AcqRel"} ->
            [sync |-> sync_rel(sync, S), threads |-> S]
      [] order = "SeqCst" ->
            [sync |-> sync_rel(sync, S), threads |-> seq_cst(S)]

-----------------------------------------------------------------------------
(* rt::atomic::FirstSeen *)

resize(v, n) == [i \in 0..(n - 1) |-> IF i \in DOMAIN v THEN v[i] ELSE None]

\* FirstSeen::touch gone wrong: the table grows only as far as the slot of
\* the active thread
FirstSeen_touch_short(fs, S) ==
    LET a == active_id(S)
        r == IF len(fs) < a + 1 THEN resize(fs, a + 1) ELSE fs
    IN  IF r[a] = None
        THEN [r EXCEPT ![a] = Some(active_atomic_version(S))]
        ELSE r

FirstSeen_touch(fs, S) ==
    LET happens_before == active(S).causality
        r == IF len(fs) < len(happens_before)
             THEN resize(fs, len(happens_before)) ELSE fs
        a == active_id(S)
    IN  IF r[a] = None
        THEN [r EXCEPT ![a] = Some(active_atomic_version(S))]
        ELSE r

FirstSeen_new(S) == FirstSeen_touch(EmptyVec, S)

\* is_seen_by_current gone wrong: a first sight counts only when strictly
\* inside the causality of the active thread
is_seen_by_current_strict(fs, S) ==
    \E thread_id \in DOMAIN active(S).causality :
        /\ thread_id \in DOMAIN fs
        /\ is_some(fs[thread_id])
        /\ unwrap(fs[thread_id]) < active(S).causality[thread_id]

is_seen_by_current(fs, S) ==
    \E thread_id \in DOMAIN active(S).causality :
        /\ thread_id \in DOMAIN fs
        /\ is_some(fs[thread_id])
        /\ unwrap(fs[thread_id]) <= active(S).causality[thread_id]

\* is_seen_before_yield gone wrong: the last yield is not looked at
is_seen_before_yield_never(fs, S) == FALSE

is_seen_before_yield(fs, S) ==
    LET thread_id == active_id(S)
    IN  /\ is_some(active(S).last_yield)
        /\ is_some(fs[thread_id])
        /\ unwrap(fs[thread_id]) <= unwrap(active(S).last_yield)

-----------------------------------------------------------------------------
(* rt::atomic::History and rt::atomic::State *)

\* The closure of take_while in pick_store, from store i down to store 0:
\* the indices it lets through, newest first
RECURSIVE take_while(_, _, _, _, _, _)
take_while(stores, i, in_causality, first, S, order) ==
    IF i < 0 THEN <<>>
    ELSE IF is_seen_before_yield(stores[i].first_seen, S)
         THEN IF first
              THEN <<i>> \o take_while(stores, i - 1, TRUE, FALSE, S, order)
              ELSE <<>>
         ELSE IF ~in_causality
              THEN <<i>> \o take_while(stores, i - 1,
                        \/ (is_seq_cst(order) /\ stores[i].seq_cst)
                        \/ is_seen_by_current(stores[i].first_seen, S),
                        FALSE, S, order)
              ELSE <<>>

\* pick_store gone wrong: every store of the history is a candidate
pick_store_all(history, S, order) ==
    [k \in 1..len(history.stores) |-> len(history.stores) - k]

\* pick_store gone wrong: the stores the active thread saw before its last
\* yield are left out, the newest included
pick_store_fresh(history, S, order) ==
    SelectSeq(pick_store_all(history, S, order),
              LAMBDA i : ~is_seen_before_yield(history.stores[i].first_seen, S))

\* The candidates pick_store hands to Path::branch_write
pick_store(history, S, order) ==
    take_while(history.stores, len(history.stores) - 1, FALSE, TRUE, S, order)

Atomic_new_state(S) ==
    [tag |-> "Atomic", last_access |-> None,
     history |-> [stores |-> push(EmptyVec,
         [sync |-> Synchronize_new, first_seen |-> FirstSeen_new(S),
          seq_cst |-> FALSE])]]

\* State::load gone wrong: the store is marked seen, nothing is acquired
State_load_nosync(state, S, order, index) ==
    [state |-> [state EXCEPT !.history.stores[index].first_seen =
                                 FirstSeen_touch(@, S)],
     threads |-> S]

\* State::load once the Path has picked index: [state, threads]
State_load(state, S, order, index) ==
    LET st1 == [state EXCEPT !.history.stores[index].first_seen =
                                 FirstSeen_touch(@, S)]
    IN  [state |-> st1,
         threads |-> sync_load(st1.history.stores[index].sync, S, order)]

\* State::store gone wrong: the new store takes the place of the newest
State_store_replace(state, S, order) ==
    LET r == sync_store(Synchronize_new, S, order)
        store == [sync |-> r.sync, first_seen |-> FirstSeen_new(S),
                  seq_cst |-> is_seq_cst(order)]
    IN  [state |-> [state EXCEPT
                      !.history.stores[len(state.history.stores) - 1] = store],
         threads |-> r.threads]

\* State::store gone wrong: every store releases
State_store_release(state, S, order) ==
    LET r == sync_store(Synchronize_new, S, "Release")
        store == [sync |-> r.sync, first_seen |-> FirstSeen_new(S),
                  seq_cst |-> is_seq_cst(order)]
    IN  [state |-> [state EXCEPT !.history.stores = push(@, store)],
         threads |-> r.threads]

\* State::store: [state, threads]
State_store(state, S, order) ==
    LET r == sync_store(Synchronize_new, S, order)
        store == [sync |-> r.sync, first_seen |-> FirstSeen_new(S),
                  seq_cst |-> is_seq_cst(order)]
    IN  [state |-> [state EXCEPT !.history.stores = push(@, store)],
         threads |-> r.threads]

\* The store State::rmw reads, gone wrong: the oldest
rmw_index_first(state) == 0

\* The store State::rmw reads
rmw_index(state) == len(state.history.stores) - 1

\* State::rmw gone wrong: the new store starts from an empty Synchronize
\* instead of a clone of the one it read
State_rmw_fresh(state, S, ok, success, failure) ==
    LET index == len(state.history.stores) - 1
        st1 == [state EXCEPT !.history.stores[index].first_seen =
                                 FirstSeen_touch(@, S)]
        prev == st1.history.stores[index]
    IN  IF ~ok
        THEN [state |-> st1, threads |-> sync_load(prev.sync, S, failure)]
        ELSE LET S1 == sync_load(prev.sync, S, success)
                 r == sync_store(Synchronize_new, S1, success)
                 new == [sync |-> r.sync, first_seen |-> FirstSeen_new(S1),
                         seq_cst |-> is_seq_cst(success)]
             IN  [state |-> [st1 EXCEPT !.history.stores = push(@, new)],
                  threads |-> r.threads]

\* State::rmw, ok being f's verdict on the store read: [state, threads]
State_rmw(state, S, ok, success, failure) ==
    LET index == rmw_index(state)
        st1 == [state EXCEPT !.history.stores[index].first_seen =
                                 FirstSeen_touch(@, S)]
        prev == st1.history.stores[index]
    IN  IF ~ok
        THEN [state |-> st1, threads |-> sync_load(prev.sync, S, failure)]
        ELSE LET S1 == sync_load(prev.sync, S, success)
                 r == sync_store(prev.sync, S1, success)
                 new == [sync |-> r.sync, first_seen |-> FirstSeen_new(S1),
                         seq_cst |-> is_seq_cst(success)]
             IN  [state |-> [st1 EXCEPT !.history.stores = push(@, new)],
                  threads |-> r.threads]

\* State::happens_before: the assertion of get_mut
happens_before(state, vv) ==
    \A i \in DOMAIN state.history.stores :
        vv_le(version_vec(state.history.stores[i].sync), vv)

-----------------------------------------------------------------------------
(* rt::object::Store *)

Store_new == EmptyVec

insert(entries, item) == push(entries, item)

\* Store::check_for_leaks gone wrong: the Arc entries are not looked at
check_for_leaks_alloc_only(entries) ==
    \A i \in DOMAIN entries :
        entries[i].tag = "Alloc" => ~entries[i].is_allocated

\* rt::alloc::State of a new allocation and rt::arc::State of a new Arc
Alloc_new_state == [tag |-> "Alloc", is_allocated |-> TRUE]

Arc_new_state == [tag |-> "Arc", ref_cnt |-> 1, last_access |-> None]

\* Store::check_for_leaks: no allocation is live and no Arc is referenced;
\* the objects of the other kinds are not looked at
check_for_leaks(entries) ==
    \A i \in DOMAIN entries :
        CASE entries[i].tag = "Alloc" -> ~entries[i].is_allocated
          [] entries[i].tag = "Arc" -> entries[i].ref_cnt = 0
          [] OTHER -> TRUE

\* Atomic State::set_last_access through Store::set_last_access
set_last_access(entries, operation, path_id, dpor_vv) ==
    [entries EXCEPT ![operation.obj].last_access =
        Some([path_id |-> path_id, dpor_vv |-> dpor_vv])]

\* The variants of Entry
Tags == {"Alloc", "Arc", "Atomic", "Mutex", "Condvar", "Notify", "Cell"}

\* An entry of each variant
EntryOf(tag) ==
    CASE tag = "Alloc" -> Alloc_new_state
      [] tag = "Arc" -> Arc_new_state
      [] tag = "Atomic" -> Atomic_new_state(Set_new)
      [] tag = "Cell" -> [tag |-> "Cell"]
      [] OTHER -> [tag |-> tag, last_access |-> None]

\* Object::get_ref gone wrong: whatever variant is stored is handed out
get_ref_any(entry, T) == Some(entry)

\* Object::get_ref and Object::get_mut for the type T, as the objects! macro
\* generates them
get_ref(entry, T) == IF entry.tag = T THEN Some(entry) ELSE None

\* Ref::get and Ref::get_mut: expect() fails on None
Ref_get(ref, entries) ==
    LET r == get_ref(entries[ref.index], ref.ty)
    IN  IF is_some(r) THEN [ok |-> TRUE, value |-> unwrap(r)]
        ELSE [ok |-> FALSE, value |-> None]

\* Ref::downcast of an untyped reference to the type T
Ref_downcast(ref, T, entries) ==
    IF is_some(get_ref(entries[ref.index], T))
    THEN Some([index |-> ref.index, ty |-> T])
    ELSE None

\* The arms of the match in Store::last_dependent_access and
\* Store::set_last_access that do not panic
branchable(entry) ==
    entry.tag \in {"Arc", "Atomic", "Mutex", "Condvar", "Notify"}

\* Ref::set_action: the pending operation of the active thread
set_action(S, obj, action) ==
    [S EXCEPT !.threads[active_id(S)].operation =
                  Some([obj |-> obj, action |-> action])]

\* Ref::branch_acquire gone wrong: the caller stays runnable whatever the
\* lock
branch_acquire_runnable(S, obj, locked) == set_action(S, obj, "Opaque")

\* Ref::branch_acquire up to the scheduling of rt::branch: the caller is
\* blocked when the mutex is locked
branch_acquire(S, obj, locked) ==
    LET S1 == set_action(S, obj, "Opaque")
    IN  IF locked
        THEN [S1 EXCEPT !.threads[active_id(S1)] = set_blocked(@)]
        ELSE S1

\* rt::Mutex::new
Mutex_new_state(sc) ==
    [tag |-> "Mutex", seq_cst |-> sc, lock |-> None,
     last_access |-> None, synchronize |-> Synchronize_new]

\* rt::Mutex::is_locked
is_locked(state) == is_some(state.lock)

\* The threads of S other than the active one whose pending operation is on
\* the object obj
pending_on(S, obj) ==
    {i \in DOMAIN S.threads :
        /\ i # active_id(S)
        /\ is_some(S.threads[i].operation)
        /\ unwrap(S.threads[i].operation).obj = obj}

\* rt::Mutex::post_acquire: the lock is taken when it is free, and the other
\* threads about to acquire it are blocked
post_acquire(state, S, obj) ==
    IF is_locked(state)
    THEN [ok |-> FALSE, state |-> state, threads |-> S]
    ELSE LET S1 == sync_load(state.synchronize, S, "Acquire")
             S2 == IF state.seq_cst THEN seq_cst(S1) ELSE S1
         IN  [ok |-> TRUE,
              state |-> [state EXCEPT !.lock = Some(active_id(S))],
              threads |-> [S2 EXCEPT !.threads = [i \in DOMAIN S2.threads |->
                              IF i \in pending_on(S2, obj)
                              THEN set_blocked(S2.threads[i])
                              ELSE S2.threads[i]]]]

\* rt::Mutex::release_lock: the lock is freed and the threads waiting for it
\* are runnable again
release_lock(state, S, obj) ==
    LET r == sync_store(state.synchronize, S, "Release")
        S2 == IF state.seq_cst THEN seq_cst(r.threads) ELSE r.threads
    IN  [state |-> [state EXCEPT !.lock = None, !.synchronize = r.sync],
         threads |-> [S2 EXCEPT !.threads = [i \in DOMAIN S2.threads |->
                         IF i \in pending_on(S2, obj)
                         THEN [S2.threads[i] EXCEPT !.state = "Runnable"]
                         ELSE S2.threads[i]]]]

\* rt::Notify::new
Notify_new_state(sc, spurious) ==
    [tag |-> "Notify", seq_cst |-> sc, spurious |-> spurious,
     did_spur |-> FALSE, notified |-> FALSE, last_access |-> None,
     synchronize |-> Synchronize_new]

\* rt::Notify::notify after its branch point: the flag is set and the
\* threads waiting on the object are unparked
Notify_notify(state, S, obj) ==
    LET r == sync_store(state.synchronize, S, "Release")
        S2 == IF state.seq_cst THEN seq_cst(r.threads) ELSE r.threads
    IN  [state |-> [state EXCEPT !.notified = TRUE, !.synchronize = r.sync],
         threads |-> [S2 EXCEPT !.threads = [i \in DOMAIN S2.threads |->
                         IF i \in pending_on(S2, obj)
                         THEN Thread_unpark(S2.threads[i], active(S2))
                         ELSE S2.threads[i]]]]

\* rt::Notify::wait once the thread is notified: the flag is consumed
Notify_waited(state, S) ==
    LET S1 == sync_load(state.synchronize, S, "Acquire")
    IN  [state |-> [state EXCEPT !.notified = FALSE],
         threads |-> IF state.seq_cst THEN seq_cst(S1) ELSE S1]

\* The loop of block_on gone wrong: a pending future is polled again at once
block_on_spin(res) ==
    IF res.ready THEN [at |-> "run", ret |-> Some(res.value)]
    ELSE [at |-> "poll", ret |-> None]

\* The loop of block_on on the result of a poll: Ready returns the value,
\* Pending goes on to notify.wait
block_on_loop(res) ==
    IF res.ready THEN [at |-> "run", ret |-> Some(res.value)]
    ELSE [at |-> "wait", ret |-> None]

-----------------------------------------------------------------------------
(* The closures under check: an arbitrary closure of one of the classes below,
   whose threads may make any call of the class at any time, or a scripted
   closure *)

Arbitrary == {"any", "sched", "mutex", "future", "critical"}

free == closure \in Arbitrary

-----------------------------------------------------------------------------
(* rt::Path: the log of decisions, each with the alternatives it was offered
   and the one in use; pos is the number of decisions this run has taken.
   Under an arbitrary closure the log is that of an arbitrary later iteration:
   every alternative may be the one replayed, and only pos is followed. *)

Path_new == [branches |-> <<>>, pos |-> 0]

\* The decision at the front of the path after branching on seed, with the
\* alternative it picks (None when seed is empty)
Path_branch(p, seed) ==
    IF free
    THEN IF seed = <<>>
         THEN {[path |-> [p EXCEPT !.pos = @ + 1], pick |-> None]}
         ELSE {[path |-> [p EXCEPT !.pos = @ + 1], pick |-> Some(seed[k])] :
                  k \in 1..Len(seed)}
    ELSE LET b == IF p.pos = Len(p.branches)
                  THEN Append(p.branches, [alts |-> seed, idx |-> 1])
                  ELSE p.branches
             d == b[p.pos + 1]
         IN  {[path |-> [branches |-> b, pos |-> p.pos + 1],
               pick |-> IF d.alts = <<>> THEN None ELSE Some(d.alts[d.idx])]}

\* Path_unwind gone wrong: only the last decision of the log is looked at
Path_unwind_last(b) ==
    IF b = <<>> THEN <<>>
    ELSE LET d == b[Len(b)]
         IN  IF d.idx < Len(d.alts)
             THEN Append(SubSeq(b, 1, Len(b) - 1), [d EXCEPT !.idx = @ + 1])
             ELSE <<>>

\* The log cut back to its latest decision with an untried alternative, that
\* decision moved to its next alternative
RECURSIVE Path_unwind(_)
Path_unwind(b) ==
    IF b = <<>> THEN <<>>
    ELSE LET d == b[Len(b)]
             rest == SubSeq(b, 1, Len(b) - 1)
         IN  IF d.idx < Len(d.alts)
             THEN Append(rest, [d EXCEPT !.idx = @ + 1])
             ELSE Path_unwind(rest)

\* Path::step: [path, more]
Path_step(p) ==
    [path |-> [branches |-> Path_unwind(p.branches), pos |-> 0],
     more |-> Path_unwind(p.branches) # <<>>]

-----------------------------------------------------------------------------
(* Execution::schedule *)

RECURSIVE ascending(_)
ascending(set) ==
    IF set = {} THEN <<>>
    ELSE LET m == CHOOSE x \in set : \A y \in set : x <= y
         IN  <<m>> \o ascending(set \ {m})

\* The threads the Path may pick next: the running thread first while it is
\* runnable, else the runnable thread that yielded least, then the other
\* runnable threads; the yielded threads when nothing is runnable. A runnable
\* thread in a critical section is offered alone.
schedule_seed(S) ==
    LET all == {i \in DOMAIN S.threads : is_runnable(S.threads[i])}
        run == IF /\ is_some(S.active) /\ active_id(S) \in all
                  /\ active(S).critical
               THEN {active_id(S)} ELSE all
        yld == {i \in DOMAIN S.threads : is_yield(S.threads[i])}
        initial ==
            IF is_some(S.active) /\ active_id(S) \in run THEN active_id(S)
            ELSE CHOOSE i \in run : \A j \in run :
                    \/ S.threads[i].yield_count < S.threads[j].yield_count
                    \/ /\ S.threads[i].yield_count = S.threads[j].yield_count
                       /\ i <= j
    IN  IF run # {} THEN <<initial>> \o ascending(run \ {initial})
        ELSE ascending(yld)

\* The execution once next has been picked: the thread becomes active, its
\* pending operation becomes the last access of its object, and the other
\* yielded threads become runnable again
scheduled(S, O, path_id, next) ==
    LET n == unwrap(next)
        S2 == [S EXCEPT !.active = next]
        op == S2.threads[n].operation
        S3 == IF is_some(op)
              THEN [S2 EXCEPT !.threads[n].dpor_vv = vv_inc(@, n)] ELSE S2
        O2 == IF is_some(op)
              THEN set_last_access(O, unwrap(op), path_id, S3.threads[n].dpor_vv)
              ELSE O
        S4 == [S3 EXCEPT !.threads = [i \in DOMAIN S3.threads |->
                  IF is_yield(S3.threads[i]) /\ i # n
                  THEN [S3.threads[i] EXCEPT !.state = "Runnable"]
                  ELSE S3.threads[i]]]
    IN  [threads |-> S4, objects |-> O2]

\* The decisions a log replays, in order
picks(b) == [k \in 1..Len(b) |->
                IF b[k].alts = <<>> THEN None ELSE Some(b[k].alts[b[k].idx])]

\* replay once the decisions of p up to p.pos have been seen to meet the
\* thread set S and the objects O and to be offered seed
recorded(p, seed, S, O) ==
    IF free THEN replay
    ELSE replay \cup {[picks |-> picks(SubSeq(p.branches, 1, p.pos)),
                       seed |-> seed, threads |-> S, objects |-> O,
                       frames |-> frames]}

\* The assertion of Path on a new decision gone wrong: no bound is checked
exceeded_never(p) == FALSE

\* The assertion of Path on a new decision: p already holds max_branches
\* decisions of this run
exceeded(p) == p.pos >= builder.max_branches

\* Execution::schedule on the thread set S and the objects O: the next
\* values of threads, objects, path and status
schedule(S, O) ==
    IF exceeded(path)
    THEN /\ status' = "panic"
         /\ threads' = S /\ objects' = O /\ path' = path
         /\ replay' = replay
    ELSE \E r \in Path_branch(path, schedule_seed(S)) :
            /\ path' = r.path
            /\ replay' = recorded(r.path, schedule_seed(S), S, O)
            /\ IF r.pick = None
               THEN /\ threads' = [S EXCEPT !.active = None]
                    /\ objects' = O
                    /\ status' = IF \A i \in DOMAIN S.threads :
                                       is_terminated(S.threads[i])
                                 THEN "complete" ELSE "panic"
               ELSE LET e == scheduled(S, O, path.pos, r.pick)
                    IN  /\ threads' = e.threads
                        /\ objects' = e.objects
                        /\ status' = "running"

-----------------------------------------------------------------------------
(* The calls of the closure under check *)

Call(op, obj, order, failure, ok) ==
    [op |-> op, obj |-> obj, order |-> order, failure |-> failure, ok |-> ok]

Plain(op) == Call(op, 0, "Relaxed", "Relaxed", TRUE)

\* The orderings std accepts for a load (and for the failure of an rmw), and
\* for a store
LoadOrderings == {"Relaxed", "Acquire", "SeqCst"}
StoreOrderings == {"Relaxed", "Release", "SeqCst"}

\* The success and failure orderings the rmw calls of an arbitrary closure
\* are drawn from
RmwOrderings == {"Relaxed", "AcqRel"}
FailureOrderings == {"Acquire"}

\* Every call a thread of an arbitrary closure may make next
AnyCalls ==
    {Plain("new"), Plain("spawn"), Plain("yield"), Plain("done")}
    \cup {Call("get_mut", o, "Relaxed", "Relaxed", TRUE) : o \in 0..(MaxObjects - 1)}
    \cup {Call("load", o, ord, "Relaxed", TRUE) :
            o \in 0..(MaxObjects - 1), ord \in LoadOrderings}
    \cup {Call("store", o, ord, "Relaxed", TRUE) :
            o \in 0..(MaxObjects - 1), ord \in StoreOrderings}
    \cup {Call("rmw", o, ord, "Relaxed", TRUE) :
            o \in 0..(MaxObjects - 1), ord \in RmwOrderings}
    \cup {Call("rmw", o, "Relaxed", ord, FALSE) :
            o \in 0..(MaxObjects - 1), ord \in FailureOrderings}

\* Every call a thread of an arbitrary closure that only schedules may make
\* next: within critical sections, nested up to MaxNest deep, it neither
\* parks, yields nor ends
SchedCalls(t) ==
    {Plain("new"), Plain("spawn"),
     Call("get_mut", 0, "Relaxed", "Relaxed", TRUE)}
    \cup {Call("unpark", u, "Relaxed", "Relaxed", TRUE) : u \in Tids}
    \cup (IF frames[t].crit = 0
          THEN {Plain("yield"), Plain("done"), Plain("park")}
          ELSE {Plain("critical_exit")})
    \cup (IF frames[t].crit < MaxNest THEN {Plain("critical_enter")} ELSE {})

\* Every call a thread of an arbitrary closure that only schedules and may
\* panic, inside a critical section or outside, may make next
CriticalCalls(t) == SchedCalls(t) \cup {Plain("panic")}

\* Every call a thread of an arbitrary closure that shares a Mutex may make
\* next: a MutexGuard is dropped by the thread that holds it, before the
\* thread ends
MutexCalls(t) ==
    {Plain("mutex_new"), Plain("spawn"), Plain("yield"), Plain("lock"),
     Plain("try_lock")}
    \cup (IF frames[t].guard THEN {Plain("guard_drop")} ELSE {Plain("done")})

\* Every call a thread of an arbitrary closure that blocks on a future may
\* make next: thread 0 calls block_on once, and any thread may wake it
\* through a clone of the waker once block_on has made it
FutureCalls(t) ==
    {Plain("spawn"), Plain("done")}
    \cup (IF t = 0 /\ frames[t].polls = 0 THEN {Plain("block_on")} ELSE {})
    \cup (IF len(objects) > 0 THEN {Plain("wake")} ELSE {})

\* The closures checked iteration by iteration: per thread, its calls in
\* program order; thread 0 creates the atomic and spawns thread 1
Scripts ==
    [relaxed2 |->
        <<  <<Plain("new"), Plain("spawn"),
              Call("store", 0, "Relaxed", "Relaxed", TRUE),
              Call("load", 0, "Relaxed", "Relaxed", TRUE), Plain("done")>>,
            <<Call("store", 0, "Relaxed", "Relaxed", TRUE),
              Call("load", 0, "Relaxed", "Relaxed", TRUE), Plain("done")>> >>,
     relacq |->
        <<  <<Plain("new"), Plain("spawn"),
              Call("load", 0, "Relaxed", "Relaxed", TRUE),
              Call("store", 0, "Release", "Relaxed", TRUE), Plain("done")>>,
            <<Call("load", 0, "Acquire", "Relaxed", TRUE),
              Call("load", 0, "Acquire", "Relaxed", TRUE), Plain("done")>> >>,
     rmw2 |->
        <<  <<Plain("new"), Plain("spawn"),
              Call("rmw", 0, "AcqRel", "Relaxed", TRUE),
              Call("load", 0, "SeqCst", "Relaxed", TRUE), Plain("done")>>,
            <<Call("rmw", 0, "Relaxed", "Acquire", FALSE),
              Plain("yield"),
              Call("load", 0, "Relaxed", "Relaxed", TRUE), Plain("done")>> >>,
     unsync |->
        <<  <<Plain("new"), Plain("spawn"),
              Call("store", 0, "Release", "Relaxed", TRUE), Plain("done")>>,
            <<Call("load", 0, "Acquire", "Relaxed", TRUE),
              Call("get_mut", 0, "Relaxed", "Relaxed", TRUE), Plain("done")>> >>]

ScriptNames == DOMAIN Scripts

\* A closure whose second thread reads a Release store with a Relaxed load
\* and then calls fence(order)
FenceAfterLoad(order) ==
    <<  <<Plain("new"), Plain("spawn"),
          Call("store", 0, "Release", "Relaxed", TRUE), Plain("done")>>,
        <<Call("load", 0, "Relaxed", "Relaxed", TRUE),
          Call("fence", 0, order, "Relaxed", TRUE), Plain("done")>> >>

\* The closures that call fence: one per ordering, and one of three threads
\* where thread 1 reads the store of thread 2 with a Relaxed load and then
\* releases a store of its own, which thread 0 acquires before its fence
FenceScripts ==
    [fence_acquire |-> FenceAfterLoad("Acquire"),
     fence_relaxed |-> FenceAfterLoad("Relaxed"),
     fence_release |-> FenceAfterLoad("Release"),
     fence_acqrel |-> FenceAfterLoad("AcqRel"),
     fence_seqcst |-> FenceAfterLoad("SeqCst"),
     fence3 |->
        <<  <<Plain("new"), Plain("spawn"), Plain("spawn"),
              Call("load", 0, "Acquire", "Relaxed", TRUE),
              Call("fence", 0, "Acquire", "Relaxed", TRUE), Plain("done")>>,
            <<Call("fence", 0, "Acquire", "Relaxed", TRUE),
              Call("load", 0, "Relaxed", "Relaxed", TRUE),
              Call("store", 0, "Release", "Relaxed", TRUE), Plain("done")>>,
            <<Call("fence", 0, "Acquire", "Relaxed", TRUE),
              Call("store", 0, "Release", "Relaxed", TRUE),
              Plain("done")>> >>]

\* The closures that allocate: an Arc shared with a spawned thread that
\* drops its reference or keeps it for ever, and an allocation that is freed
\* or not
LeakScripts ==
    [arc_dropped |->
        <<  <<Plain("arc_new"), Plain("ref_inc"), Plain("spawn"),
              Plain("ref_dec"), Plain("done")>>,
            <<Plain("ref_dec"), Plain("done")>> >>,
     arc_leaked |->
        <<  <<Plain("arc_new"), Plain("ref_inc"), Plain("spawn"),
              Plain("ref_dec"), Plain("done")>>,
            <<Plain("done")>> >>,
     alloc_freed |->
        <<  <<Plain("alloc"), Plain("spawn"), Plain("done")>>,
            <<Plain("dealloc"), Plain("done")>> >>,
     alloc_leaked |->
        <<  <<Plain("alloc"), Plain("spawn"), Plain("done")>>,
            <<Plain("done")>> >>]

\* The closures that panic: thread 0 while the thread it spawned has still
\* to run, and a spawned thread when its load returned the initial value
PanicScripts ==
    [panic_main |->
        <<  <<Plain("new"), Plain("spawn"),
              Call("store", 0, "Relaxed", "Relaxed", TRUE), Plain("panic")>>,
            <<Call("load", 0, "SeqCst", "Relaxed", TRUE), Plain("done")>> >>,
     panic_spawned |->
        <<  <<Plain("new"), Plain("spawn"),
              Call("store", 0, "Relaxed", "Relaxed", TRUE),
              Call("store", 0, "Release", "Relaxed", TRUE), Plain("done")>>,
            <<Call("load", 0, "Acquire", "Relaxed", TRUE),
              Call("load", 0, "Relaxed", "Relaxed", TRUE),
              Plain("panic_if_init"), Plain("done")>> >>]

\* The closures that move causality. causal uses every operation that does:
\* thread 0 parks before thread 1 has run, and thread 1 unparks it. In
\* created_late thread 0 makes the atomic after it has spawned thread 1 and
\* advanced its own clock, and thread 1 is handed the atomic without
\* synchronization
CausalScripts ==
    [created_late |->
        <<  <<Plain("spawn"), Call("fence", 0, "Acquire", "Relaxed", TRUE),
              Plain("new"), Plain("done")>>,
            <<Call("load", 0, "Acquire", "Relaxed", TRUE), Plain("done")>> >>,
     causal |->
        <<  <<Plain("new"), Plain("spawn"),
              Call("fence", 0, "Acquire", "Relaxed", TRUE), Plain("park"),
              Call("rmw", 0, "AcqRel", "Relaxed", TRUE),
              Call("load", 0, "SeqCst", "Relaxed", TRUE),
              Plain("yield"), Plain("done")>>,
            <<Call("load", 0, "Acquire", "Relaxed", TRUE),
              Call("unpark", 0, "Relaxed", "Relaxed", TRUE),
              Call("store", 0, "Release", "Relaxed", TRUE),
              Call("store", 0, "SeqCst", "Relaxed", TRUE),
              Plain("done")>> >>,
     unpark_dead |->
        <<  <<Plain("new"), Plain("spawn"),
              Call("unpark", 0, "Relaxed", "Relaxed", TRUE), Plain("done")>>,
            <<Call("store", 0, "Release", "Relaxed", TRUE),
              Call("unpark", 0, "Relaxed", "Relaxed", TRUE),
              Call("unpark", 1, "Relaxed", "Relaxed", TRUE),
              Plain("done")>> >>,
     unpark_live |->
        <<  <<Plain("new"), Plain("spawn"),
              Call("store", 0, "Release", "Relaxed", TRUE), Plain("yield"),
              Call("unpark", 1, "Relaxed", "Relaxed", TRUE), Plain("done")>>,
            <<Call("store", 0, "Release", "Relaxed", TRUE),
              Call("unpark", 0, "Relaxed", "Relaxed", TRUE),
              Plain("done")>> >>,
     clocks |->
        <<  <<Plain("new"), Plain("spawn"),
              Call("load", 0, "Relaxed", "Relaxed", TRUE),
              Call("store", 0, "Release", "Relaxed", TRUE),
              Call("rmw", 0, "Relaxed", "Acquire", FALSE), Plain("done")>>,
            <<Call("load", 0, "Relaxed", "Relaxed", TRUE),
              Call("fence", 0, "Acquire", "Relaxed", TRUE),
              Call("rmw", 0, "AcqRel", "Relaxed", TRUE), Plain("done")>> >>]

AllScripts ==
    Scripts @@ FenceScripts @@ LeakScripts @@ PanicScripts @@ CausalScripts

\* The calls thread t may make where it stands
Calls(t) ==
    IF closure = "any" THEN AnyCalls
    ELSE IF closure = "sched" THEN SchedCalls(t)
    ELSE IF closure = "critical" THEN CriticalCalls(t)
    ELSE IF closure = "mutex" THEN MutexCalls(t)
    ELSE IF closure = "future" THEN FutureCalls(t)
    ELSE LET script == AllScripts[closure][t + 1]
         IN  IF frames[t].pc < Len(script)
             THEN {script[frames[t].pc + 1]} ELSE {}

\* rt::atomic::Action of a call
action_of(op) ==
    CASE op = "load" -> "Load" [] op = "store" -> "Store"
      [] op \in {"rmw", "get_mut"} -> "Rmw"

Frame_new ==
    [at |-> "run", obj |-> 0, pc |-> 0, crit |-> 0, guard |-> FALSE,
     polls |-> 0]

\* The frame of t once its call has returned; an arbitrary closure has no
\* position to keep
returned(t) ==
    [frames EXCEPT ![t].at = "run",
                   ![t].pc = IF free THEN 0 ELSE @ + 1]

-----------------------------------------------------------------------------
(* History kept beside the execution *)

NoOp ==
    [kind |-> "none", thread |-> 0, obj |-> 0, order |-> "Relaxed",
     index |-> 0, ok |-> TRUE, cands |-> <<>>, seen |-> {}, len |-> 0,
     pre |-> VersionVec_new(capacity), before |-> {}, ret |-> None]

\* First observation of a store by thread t, at t's own clock
observe(entry, S, t) ==
    IF entry.obs[t] = None
    THEN [entry EXCEPT !.obs[t] = Some(S.threads[t].causality[t])]
    ELSE entry

\* The log entry of a store written by the active thread of S; rel is the
\* set of stores the write releases to whoever acquires it
written(S, order, rmw, rel) ==
    LET t == active_id(S)
    IN  [by |-> t, order |-> order, at |-> S.threads[t].causality, rmw |-> rmw,
         rel |-> rel,
         obs |-> [u \in Tids |->
                    IF u = t THEN Some(S.threads[t].causality[t]) ELSE None]]

acquires(order) == order \in {"Acquire", "AcqRel", "SeqCst"}

releases(order) == order \in {"Release", "AcqRel", "SeqCst"}

\* hb once thread t has the stores in more before it, through a SeqCst
\* operation when sc holds: SeqCst operations are totally ordered
hb_gain(h, t, more, sc) ==
    LET mine == h.t[t] \cup more \cup (IF sc THEN h.sc ELSE {})
    IN  [t |-> [h.t EXCEPT ![t] = mine],
         sc |-> IF sc THEN h.sc \cup mine ELSE h.sc]

\* The stores of object o thread t has observed: written or read by t, or
\* first observed by a thread at a clock within t's causality
observed(o, t) ==
    {i \in DOMAIN stlog[o] :
        \E u \in Tids :
            /\ is_some(stlog[o][i].obs[u])
            /\ unwrap(stlog[o][i].obs[u]) <= threads.threads[t].causality[u]}

seq_cst_point(S, isSc) ==
    IF isSc THEN vv_join(sclog, active(S).causality) ELSE sclog

-----------------------------------------------------------------------------
(* rt/mod.rs *)

\* rt::synchronize gone wrong: the clock of the active thread stays
synchronize_still(S) == S

\* rt::synchronize after f: the active thread's own clock advances
synchronize(S) == active_causality_inc(S)

Running(t) == status = "running" /\ threads.active = Some(t)

CanCall(t) == Running(t) /\ frames[t].at = "run"

\* The run of an arbitrary closure that uses atomics is followed while it has
\* taken fewer than MaxDecisions decisions; the others run until max_branches
\* ends them
Followed == closure = "any" => path.pos < MaxDecisions

-----------------------------------------------------------------------------
(* Actions *)

\* Builder::new with no variable of the environment set
Builder_new ==
    [max_threads |-> max_threads, max_branches |-> max_branches,
     max_permutations |-> None,
     checkpoint_interval |-> 20000]

\* Builder::check at the top of its loop, i being the iteration to run: at a
\* checkpoint with max_permutations reached, check returns
stops(i) ==
    /\ i % builder.checkpoint_interval = 0
    /\ is_some(builder.max_permutations)
    /\ i >= unwrap(builder.max_permutations)

\* Execution::new at the first iteration of Builder::check
Fresh ==
    /\ threads = Set_new
    /\ objects = Store_new
    /\ path = Path_new
    /\ frames = push(EmptyVec, Frame_new)
    /\ status = IF stops(1) THEN "stopped" ELSE "running"
    /\ iter = 1
    /\ last = NoOp
    /\ stlog = EmptyVec
    /\ hb = [t |-> [u \in Tids |-> {}], sc |-> {}]
    /\ sclog = VersionVec_new(capacity)
    /\ explored = {}
    /\ replay = {}

\* Atomic::new: the initial store, seen by the creating thread
AtomicNew(t) ==
    /\ CanCall(t)
    /\ Plain("new") \in Calls(t)
    /\ len(objects) < MaxObjects
    /\ objects' = insert(objects, Atomic_new_state(threads))
    /\ stlog' = push(stlog, push(EmptyVec, written(threads, "Init", FALSE, {})))
    /\ hb' = hb_gain(hb, t, {<<len(objects), 0>>}, FALSE)
    /\ frames' = returned(t)
    /\ UNCHANGED <<threads, path, status, iter, closure, builder, last, sclog,
                   explored, replay>>

\* rt::spawn: Set::new_thread asserts that there is room
Spawn(t) ==
    /\ CanCall(t)
    /\ Plain("spawn") \in Calls(t)
    /\ IF len(threads.threads) < capacity
       THEN /\ threads' = Execution_new_thread(threads)
            /\ frames' = push(returned(t), Frame_new)
            /\ hb' = [hb EXCEPT !.t[len(threads.threads)] = hb.t[t]]
            /\ status' = status
       ELSE /\ status' = "panic"
            /\ UNCHANGED <<threads, frames, hb>>
    /\ UNCHANGED <<objects, path, iter, closure, builder, last, stlog, sclog,
                   explored, replay>>

\* Atomic::load, store, rmw, get_mut up to the branch point: Ref::branch_action
\* records the operation and rt::branch schedules
Branch(t) ==
    /\ CanCall(t)
    /\ \E c \in Calls(t) :
        /\ c.op \in {"load", "store", "rmw", "get_mut"}
        /\ c.obj < len(objects)
        /\ Followed
        /\ frames' = [frames EXCEPT ![t].at = c.op, ![t].obj = c.obj]
        /\ schedule([threads EXCEPT !.threads[t].operation =
                        Some([obj |-> c.obj, action |-> action_of(c.op)])],
                    objects)
    /\ UNCHANGED <<iter, closure, builder, last, stlog, hb, sclog, explored>>

\* Atomic::load after the branch point: State::load inside rt::synchronize
Load(t) ==
    /\ Running(t)
    /\ frames[t].at = "load"
    /\ \E c \in Calls(t) :
        /\ c.op = "load" /\ c.obj = frames[t].obj
        /\ IF exceeded(path)
           THEN /\ status' = "panic"
                /\ UNCHANGED <<threads, objects, path, frames, last, stlog,
                               hb, sclog, replay>>
           ELSE LET o == c.obj
                    cands == pick_store(objects[o].history, threads, c.order)
                IN  \E r \in Path_branch(path, cands) :
                      LET index == unwrap(r.pick)
                          res == State_load(objects[o], threads, c.order, index)
                      IN  /\ objects' = [objects EXCEPT ![o] = res.state]
                          /\ threads' = synchronize(res.threads)
                          /\ path' = r.path
                          /\ replay' = recorded(r.path, cands, threads, objects)
                          /\ frames' = returned(t)
                          /\ status' = status
                          /\ last' = [kind |-> "load", thread |-> t, obj |-> o,
                                      order |-> c.order, index |-> index,
                                      ok |-> TRUE, cands |-> cands,
                                      seen |-> observed(o, t),
                                      len |-> len(objects[o].history.stores),
                                      pre |-> threads.threads[t].causality,
                                      before |-> hb.t[t]]
                          /\ stlog' = [stlog EXCEPT ![o][index] =
                                          observe(@, threads, t)]
                          /\ hb' = hb_gain(hb, t,
                                    IF acquires(c.order)
                                    THEN stlog[o][index].rel ELSE {},
                                    is_seq_cst(c.order))
                          /\ sclog' = seq_cst_point(threads, is_seq_cst(c.order))
    /\ UNCHANGED <<iter, closure, builder, explored>>

\* Atomic::store after the branch point: State::store inside rt::synchronize
Store(t) ==
    /\ Running(t)
    /\ frames[t].at = "store"
    /\ \E c \in Calls(t) :
        /\ c.op = "store" /\ c.obj = frames[t].obj
        /\ LET o == c.obj
               res == State_store(objects[o], threads, c.order)
           IN  /\ objects' = [objects EXCEPT ![o] = res.state]
               /\ threads' = synchronize(res.threads)
               /\ frames' = returned(t)
               /\ last' = [kind |-> "store", thread |-> t, obj |-> o,
                           order |-> c.order,
                           index |-> len(res.state.history.stores) - 1,
                           ok |-> TRUE, cands |-> <<>>,
                           seen |-> observed(o, t),
                           len |-> len(objects[o].history.stores),
                           pre |-> threads.threads[t].causality,
                                      before |-> hb.t[t]]
               /\ hb' = hb_gain(hb, t, {<<o, len(stlog[o])>>},
                                 is_seq_cst(c.order))
               /\ stlog' = [stlog EXCEPT ![o] =
                               push(@, written(threads, c.order, FALSE,
                                   IF releases(c.order)
                                   THEN hb'.t[t] ELSE {}))]
               /\ sclog' = seq_cst_point(threads, is_seq_cst(c.order))
    /\ UNCHANGED <<path, status, iter, closure, builder, explored, replay>>

\* Atomic::rmw after the branch point: State::rmw inside rt::synchronize
Rmw(t) ==
    /\ Running(t)
    /\ frames[t].at = "rmw"
    /\ \E c \in Calls(t) :
        /\ c.op = "rmw" /\ c.obj = frames[t].obj
        /\ LET o == c.obj
               index == rmw_index(objects[o])
               res == State_rmw(objects[o], threads, c.ok, c.order, c.failure)
               read == [stlog EXCEPT ![o][index] = observe(@, threads, t)]
               used == IF c.ok THEN c.order ELSE c.failure
           IN  /\ objects' = [objects EXCEPT ![o] = res.state]
               /\ threads' = synchronize(res.threads)
               /\ frames' = returned(t)
               /\ last' = [kind |-> "rmw", thread |-> t, obj |-> o,
                           order |-> used, index |-> index,
                           ok |-> c.ok, cands |-> <<>>,
                           seen |-> observed(o, t),
                           len |-> len(objects[o].history.stores),
                           pre |-> threads.threads[t].causality,
                                      before |-> hb.t[t]]
               /\ hb' = hb_gain(hb, t,
                            (IF acquires(used) THEN stlog[o][index].rel ELSE {})
                            \cup (IF c.ok THEN {<<o, len(stlog[o])>>} ELSE {}),
                            is_seq_cst(used))
               /\ stlog' = IF c.ok
                           THEN [read EXCEPT ![o] =
                                    push(@, written(threads, c.order, TRUE,
                                        stlog[o][index].rel \cup
                                        (IF releases(c.order)
                                         THEN hb'.t[t] ELSE {})))]
                           ELSE read
               /\ sclog' = seq_cst_point(threads, is_seq_cst(used))
    /\ UNCHANGED <<path, status, iter, closure, builder, explored, replay>>

\* Atomic::get_mut after the branch point: the assertion of happens_before
GetMut(t) ==
    /\ Running(t)
    /\ frames[t].at = "get_mut"
    /\ LET o == frames[t].obj
           holds == happens_before(objects[o], threads.threads[t].causality)
       IN  /\ status' = IF holds THEN status ELSE "panic"
           /\ frames' = IF holds THEN returned(t) ELSE frames
           /\ last' = [kind |-> "get_mut", thread |-> t, obj |-> o,
                       order |-> "Relaxed", index |-> 0, ok |-> holds,
                       cands |-> <<>>, seen |-> observed(o, t),
                       len |-> len(objects[o].history.stores),
                       pre |-> threads.threads[t].causality,
                                      before |-> hb.t[t]]
    /\ UNCHANGED <<threads, objects, path, iter, closure, builder, stlog, hb,
                   sclog, explored, replay>>

\* rt::yield_now
YieldNow(t) ==
    /\ CanCall(t)
    /\ Plain("yield") \in Calls(t)
    /\ threads.threads[t].yield_count < MaxYield
    /\ Followed
    /\ frames' = returned(t)
    /\ schedule([threads EXCEPT !.threads[t] =
                    [set_yield(@, t) EXCEPT !.operation = None]], objects)
    /\ UNCHANGED <<iter, closure, builder, last, stlog, hb, sclog, explored>>

\* rt::thread_done
ThreadDone(t) ==
    /\ CanCall(t)
    /\ Plain("done") \in Calls(t)
    /\ Followed
    /\ frames' = [frames EXCEPT ![t].at = "done"]
    /\ schedule([threads EXCEPT !.threads[t].state = "Terminated",
                                !.threads[t].operation = None], objects)
    /\ UNCHANGED <<iter, closure, builder, last, stlog, hb, sclog, explored>>

\* rt::park
Park(t) ==
    /\ CanCall(t)
    /\ Plain("park") \in Calls(t)
    /\ Followed
    /\ frames' = returned(t)
    /\ schedule([threads EXCEPT !.threads[t] =
                    [set_blocked(@) EXCEPT !.operation = None]], objects)
    /\ UNCHANGED <<iter, closure, builder, last, stlog, hb, sclog, explored>>

\* Set::unpark of thread u by the running thread
Unpark(t) ==
    /\ CanCall(t)
    /\ \E c \in Calls(t) :
        /\ c.op = "unpark"
        /\ c.obj < len(threads.threads)
        /\ threads' = Set_unpark(threads, c.obj)
        /\ hb' = [hb EXCEPT !.t[c.obj] = @ \cup hb.t[t]]
    /\ frames' = returned(t)
    /\ UNCHANGED <<objects, path, status, iter, closure, builder, last, stlog,
                   sclog, explored, replay>>

\* The assertion of fence on its ordering
fence_supported_any(order) == TRUE

fence_supported(order) == order = "Acquire"

\* The loops of fence over the stores of one atomic, from store i on, and
\* over the atomics of the object store, from object o on: the thread set
\* once every store seen by the current thread has been acquired
RECURSIVE fence_stores(_, _, _, _)
fence_stores(stores, i, S, order) ==
    IF i >= len(stores) THEN S
    ELSE fence_stores(stores, i + 1,
            IF is_seen_by_current(stores[i].first_seen, S)
            THEN sync_load(stores[i].sync, S, order) ELSE S,
            order)

RECURSIVE fence_atomics(_, _, _, _)
fence_atomics(O, o, S, order) ==
    IF o >= len(O) THEN S
    ELSE fence_atomics(O, o + 1,
            IF O[o].tag = "Atomic"
            THEN fence_stores(O[o].history.stores, 0, S, order) ELSE S,
            order)

\* The stores thread t has read or written
seen_by(t) ==
    {<<o, i>> \in UNION {{o} \X DOMAIN stlog[o] : o \in DOMAIN stlog} :
        is_some(stlog[o][i].obs[t])}

\* rt::atomic::fence
Fence(t) ==
    /\ CanCall(t)
    /\ \E c \in Calls(t) :
        /\ c.op = "fence"
        /\ IF ~fence_supported(c.order)
           THEN /\ status' = "panic"
                /\ UNCHANGED <<threads, frames, last, hb>>
           ELSE /\ threads' = synchronize(
                                 fence_atomics(objects, 0, threads, c.order))
                /\ frames' = returned(t)
                /\ status' = status
                /\ last' = [kind |-> "fence", thread |-> t, obj |-> 0,
                            order |-> c.order, index |-> 0, ok |-> TRUE,
                            cands |-> <<>>, seen |-> {},
                            len |-> 0,
                            pre |-> threads.threads[t].causality,
                            before |-> hb.t[t]]
                /\ hb' = hb_gain(hb, t,
                                 UNION {stlog[x[1]][x[2]].rel : x \in seen_by(t)},
                                 FALSE)
    /\ UNCHANGED <<objects, path, iter, closure, builder, stlog, sclog,
                   explored, replay>>

\* rt::arc::Arc::new and rt::alloc::alloc: a new object of the store
ObjectNew(t) ==
    /\ CanCall(t)
    /\ \E c \in Calls(t) :
        /\ c.op \in {"arc_new", "alloc"}
        /\ len(objects) < MaxObjects
        /\ objects' = insert(objects, IF c.op = "arc_new"
                                      THEN Arc_new_state ELSE Alloc_new_state)
    /\ stlog' = push(stlog, EmptyVec)
    /\ frames' = returned(t)
    /\ UNCHANGED <<threads, path, status, iter, closure, builder, last, hb,
                   sclog, explored, replay>>

\* rt::arc::Arc::ref_inc and ref_dec on the Arc of the store
ArcRef(t) ==
    /\ CanCall(t)
    /\ \E c \in Calls(t) :
        /\ c.op \in {"ref_inc", "ref_dec"}
        /\ c.obj < len(objects)
        /\ objects[c.obj].tag = "Arc"
        /\ objects' = [objects EXCEPT ![c.obj].ref_cnt =
                          IF c.op = "ref_inc" THEN @ + 1 ELSE @ - 1]
    /\ frames' = returned(t)
    /\ UNCHANGED <<threads, path, status, iter, closure, builder, last, stlog,
                   hb, sclog, explored, replay>>

\* rt::alloc::dealloc of the allocation of the store
Dealloc(t) ==
    /\ CanCall(t)
    /\ \E c \in Calls(t) :
        /\ c.op = "dealloc"
        /\ c.obj < len(objects)
        /\ objects[c.obj].tag = "Alloc"
        /\ objects' = [objects EXCEPT ![c.obj].is_allocated = FALSE]
    /\ frames' = returned(t)
    /\ UNCHANGED <<threads, path, status, iter, closure, builder, last, stlog,
                   hb, sclog, explored, replay>>

\* panic! in the closure: unconditional, or when the load the thread has
\* just made returned the initial store. The panic unwinds the calls of
\* rt::critical the thread is inside: the Reset of each is dropped
Panic(t) ==
    /\ CanCall(t)
    /\ \E c \in Calls(t) :
        /\ c.op \in {"panic", "panic_if_init"}
        /\ IF c.op = "panic" \/ (last.kind = "load" /\ last.thread = t
                                  /\ last.index = 0)
           THEN /\ status' = "panic"
                /\ frames' = [frames EXCEPT ![t].crit = 0]
                /\ threads' = IF frames[t].crit > 0
                              THEN unset_critical(threads) ELSE threads
           ELSE /\ status' = status
                /\ frames' = returned(t)
                /\ threads' = threads
    /\ UNCHANGED <<objects, path, iter, closure, builder, last, stlog,
                   hb, sclog, explored, replay>>

\* rt::critical up to the call of f
CriticalEnter(t) ==
    /\ CanCall(t)
    /\ Plain("critical_enter") \in Calls(t)
    /\ threads' = set_critical(threads)
    /\ frames' = [returned(t) EXCEPT ![t].crit = @ + 1]
    /\ UNCHANGED <<objects, path, status, iter, closure, builder, last, stlog,
                   hb, sclog, explored, replay>>

\* rt::critical once f has returned: Reset is dropped
CriticalExit(t) ==
    /\ CanCall(t)
    /\ Plain("critical_exit") \in Calls(t)
    /\ frames[t].crit > 0
    /\ threads' = unset_critical(threads)
    /\ frames' = [returned(t) EXCEPT ![t].crit = @ - 1]
    /\ UNCHANGED <<objects, path, status, iter, closure, builder, last, stlog,
                   hb, sclog, explored, replay>>

\* The execution an iteration runs on gone wrong: rebuilt around the objects
\* of the iteration before
Execution_new_leaky ==
    /\ threads' = Set_new
    /\ frames' = push(EmptyVec, Frame_new)
    /\ last' = NoOp
    /\ sclog' = VersionVec_new(capacity)
    /\ UNCHANGED <<objects, stlog, hb>>

\* The execution an iteration runs on gone wrong: the sequentially consistent
\* clock of the iteration before is kept
Execution_new_stale ==
    /\ threads' = [Set_new EXCEPT
                      !.seq_cst_causality = threads.seq_cst_causality]
    /\ objects' = Store_new
    /\ frames' = push(EmptyVec, Frame_new)
    /\ last' = NoOp
    /\ stlog' = EmptyVec
    /\ hb' = [t |-> [u \in Tids |-> {}], sc |-> {}]
    /\ sclog' = VersionVec_new(capacity)

\* Execution::new over the arena Builder::check has reset: no object, thread 0
\* alone, nothing of the iteration before
Execution_new ==
    /\ threads' = Set_new
    /\ objects' = Store_new
    /\ frames' = push(EmptyVec, Frame_new)
    /\ last' = NoOp
    /\ stlog' = EmptyVec
    /\ hb' = [t |-> [u \in Tids |-> {}], sc |-> {}]
    /\ sclog' = VersionVec_new(capacity)

\* The end of an iteration gone wrong: check returns whatever Path::step
\* answers
NextIteration_once ==
    /\ status = "complete"
    /\ closure # "any"
    /\ path' = Path_step(path).path
    /\ explored' = explored \cup {path.branches}
    /\ iter' = iter
    /\ status' = "finished"
    /\ Execution_new
    /\ UNCHANGED <<closure, builder, replay>>

\* The end of an iteration gone wrong: a failed run is followed by the next
\* permutation as a completed one is
NextIteration_retry ==
    /\ status \in {"complete", "panic"}
    /\ ~free
    /\ LET r == Path_step(path)
       IN  /\ path' = r.path
           /\ explored' = explored \cup {path.branches}
           /\ iter' = IF r.more THEN iter + 1 ELSE iter
           /\ status' = IF r.more THEN "running" ELSE "finished"
    /\ Execution_new
    /\ UNCHANGED <<closure, builder, replay>>

\* Builder::check after scheduler.run returned: the leak check, the execution
\* dropped and the arena reset, Path::step, and the top of the loop with the
\* next Execution::new
NextIteration ==
    /\ status = "complete"
    /\ ~free
    /\ IF ~check_for_leaks(objects)
       THEN /\ status' = "panic"
            /\ UNCHANGED <<threads, objects, path, frames, iter, last, stlog,
                           hb, sclog, explored>>
       ELSE /\ LET r == Path_step(path)
               IN  /\ path' = r.path
                   /\ explored' = explored \cup {path.branches}
                   /\ IF r.more
                      THEN /\ iter' = iter + 1
                           /\ status' = IF stops(iter + 1)
                                        THEN "stopped" ELSE "running"
                      ELSE /\ iter' = iter
                           /\ status' = "finished"
            /\ Execution_new
    /\ UNCHANGED <<closure, builder, replay>>

Step(t) ==
    \/ AtomicNew(t) \/ Spawn(t) \/ Branch(t)
    \/ Load(t) \/ Store(t) \/ Rmw(t) \/ GetMut(t)
    \/ YieldNow(t) \/ ThreadDone(t)

\* One run of an arbitrary closure under an arbitrary Path
Next == \E t \in Tids : Step(t)

Init == builder = Builder_new /\ closure = "any" /\ Fresh

Spec == Init /\ [][Next]_vars

\* Builder::check of one of the scripted closures
NextCheck == (\E t \in Tids : Step(t)) \/ NextIteration

InitCheck == builder = Builder_new /\ closure \in ScriptNames /\ Fresh

SpecCheck == InitCheck /\ [][NextCheck]_vars

\* One run of an arbitrary closure that only schedules, under an arbitrary
\* Path
NextSched ==
    \E t \in Tids :
        \/ AtomicNew(t) \/ Spawn(t) \/ Branch(t) \/ GetMut(t)
        \/ YieldNow(t) \/ ThreadDone(t) \/ Park(t) \/ Unpark(t)
        \/ CriticalEnter(t) \/ CriticalExit(t)

InitSched ==
    /\ builder = [Builder_new EXCEPT !.max_branches = SchedBranches]
    /\ closure = "sched"
    /\ Fresh

SpecSched == InitSched /\ [][NextSched]_vars

\* One run of an arbitrary closure that only schedules and may panic, under
\* an arbitrary Path
NextCritical ==
    \E t \in Tids :
        \/ AtomicNew(t) \/ Spawn(t) \/ Branch(t) \/ GetMut(t)
        \/ YieldNow(t) \/ ThreadDone(t) \/ Park(t) \/ Unpark(t)
        \/ CriticalEnter(t) \/ CriticalExit(t) \/ Panic(t)

InitCritical ==
    /\ builder = [Builder_new EXCEPT !.max_branches = SchedBranches]
    /\ closure = "critical"
    /\ Fresh

SpecCritical == InitCritical /\ [][NextCritical]_vars

\* Builder::check of one of the closures that call fence
NextFence ==
    \/ \E t \in Tids :
        \/ AtomicNew(t) \/ Spawn(t) \/ Branch(t) \/ Load(t) \/ Store(t)
        \/ Fence(t) \/ ThreadDone(t)
    \/ NextIteration

InitFence ==
    /\ builder = [Builder_new EXCEPT !.max_threads = FenceThreads]
    /\ closure \in DOMAIN FenceScripts
    /\ Fresh

SpecFence == InitFence /\ [][NextFence]_vars

\* Builder::check of one of the scripted closures with max_permutations and
\* checkpoint_interval set
InitBound ==
    /\ builder \in {[Builder_new EXCEPT !.max_permutations = Some(n),
                                        !.checkpoint_interval = k] :
                        n \in 1..MaxPermutations, k \in 1..MaxInterval}
    /\ closure \in ScriptNames
    /\ Fresh

SpecBound == InitBound /\ [][NextCheck]_vars

\* Builder::check of one of the closures that allocate, or of one that only
\* uses an atomic
NextLeak ==
    \/ \E t \in Tids :
        \/ AtomicNew(t) \/ ObjectNew(t) \/ ArcRef(t) \/ Dealloc(t)
        \/ Spawn(t) \/ Branch(t) \/ Load(t) \/ Store(t) \/ ThreadDone(t)
    \/ NextIteration

InitLeak ==
    /\ builder = Builder_new
    /\ closure \in DOMAIN LeakScripts \cup {"relaxed2"}
    /\ Fresh

SpecLeak == InitLeak /\ [][NextLeak]_vars

\* Builder::check of the closure that uses every operation that moves
\* causality
NextCausal ==
    \/ \E t \in Tids :
        \/ AtomicNew(t) \/ Spawn(t) \/ Branch(t) \/ Load(t) \/ Store(t)
        \/ Rmw(t) \/ Fence(t) \/ Park(t) \/ Unpark(t) \/ YieldNow(t)
        \/ ThreadDone(t)
    \/ NextIteration

InitCausal ==
    /\ builder = [Builder_new EXCEPT !.max_branches = CausalBranches]
    /\ closure \in DOMAIN CausalScripts
    /\ Fresh

SpecCausal == InitCausal /\ [][NextCausal]_vars

\* Builder::check of one of the closures that panic
NextPanic ==
    \/ \E t \in Tids :
        \/ AtomicNew(t) \/ Spawn(t) \/ Branch(t) \/ Load(t) \/ Store(t)
        \/ Panic(t) \/ ThreadDone(t)
    \/ NextIteration

InitPanic ==
    /\ builder = Builder_new
    /\ closure \in DOMAIN PanicScripts
    /\ Fresh

SpecPanic == InitPanic /\ [][NextPanic]_vars

\* sync::Mutex::new
MutexNew(t) ==
    /\ CanCall(t)
    /\ Plain("mutex_new") \in Calls(t)
    /\ len(objects) < MaxObjects
    /\ objects' = insert(objects, Mutex_new_state(TRUE))
    /\ stlog' = push(stlog, EmptyVec)
    /\ frames' = returned(t)
    /\ UNCHANGED <<threads, path, status, iter, closure, builder, last, hb,
                   sclog, explored, replay>>

\* sync::Mutex::lock and try_lock up to the branch point: acquire_lock
\* branches with Ref::branch_acquire, try_acquire_lock with
\* Ref::branch_opaque
Lock(t) ==
    /\ CanCall(t)
    /\ \E c \in Calls(t) :
        /\ c.op \in {"lock", "try_lock"}
        /\ c.obj < len(objects)
        /\ frames' = [frames EXCEPT ![t].at = c.op, ![t].obj = c.obj]
        /\ schedule(IF c.op = "lock"
                    THEN branch_acquire(threads, c.obj,
                                        is_locked(objects[c.obj]))
                    ELSE set_action(threads, c.obj, "Opaque"),
                    objects)
    /\ UNCHANGED <<iter, closure, builder, last, stlog, hb, sclog, explored>>

\* sync::Mutex::lock and try_lock after the branch point: post_acquire, which
\* acquire_lock asserts, and the MutexGuard handed to the caller
Acquire(t) ==
    /\ Running(t)
    /\ frames[t].at \in {"lock", "try_lock"}
    /\ LET o == frames[t].obj
           r == post_acquire(objects[o], threads, o)
       IN  /\ last' = [NoOp EXCEPT !.kind = frames[t].at, !.thread = t,
                                    !.obj = o, !.ok = r.ok]
           /\ IF frames[t].at = "lock" /\ ~r.ok
              THEN /\ status' = "panic"
                   /\ UNCHANGED <<threads, objects, frames>>
              ELSE /\ status' = status
                   /\ threads' = r.threads
                   /\ objects' = [objects EXCEPT ![o] = r.state]
                   /\ frames' = [returned(t) EXCEPT
                                    ![t].guard = @ \/ r.ok]
    /\ UNCHANGED <<path, iter, closure, builder, stlog, hb, sclog, explored,
                   replay>>

\* MutexGuard::drop
GuardDrop(t) ==
    /\ CanCall(t)
    /\ Plain("guard_drop") \in Calls(t)
    /\ frames[t].guard
    /\ LET o == 0
           r == release_lock(objects[o], threads, o)
       IN  /\ threads' = r.threads
           /\ objects' = [objects EXCEPT ![o] = r.state]
           /\ last' = [NoOp EXCEPT !.kind = "guard_drop", !.thread = t,
                                    !.obj = o]
    /\ frames' = [returned(t) EXCEPT ![t].guard = FALSE]
    /\ UNCHANGED <<path, status, iter, closure, builder, stlog, hb, sclog,
                   explored, replay>>

\* One run of an arbitrary closure that shares a Mutex, under an arbitrary
\* Path
NextMutex ==
    \E t \in Tids :
        \/ MutexNew(t) \/ Spawn(t) \/ Lock(t) \/ Acquire(t) \/ GuardDrop(t)
        \/ YieldNow(t) \/ ThreadDone(t)

InitMutex ==
    /\ builder = [Builder_new EXCEPT !.max_branches = MutexBranches]
    /\ closure = "mutex"
    /\ Fresh

SpecMutex == InitMutex /\ [][NextMutex]_vars

\* block_on up to its first poll: the Notify behind the waker
BlockOn(t) ==
    /\ CanCall(t)
    /\ Plain("block_on") \in Calls(t)
    /\ len(objects) < MaxObjects
    /\ objects' = insert(objects, Notify_new_state(FALSE, TRUE))
    /\ stlog' = push(stlog, EmptyVec)
    /\ frames' = [frames EXCEPT ![t].at = "poll", ![t].polls = 1]
    /\ UNCHANGED <<threads, path, status, iter, closure, builder, last, hb,
                   sclog, explored, replay>>

\* wake_arc_raw and wake_by_ref_arc_raw up to the branch point of
\* Notify::notify, called by the future within its poll or by a thread that
\* holds a clone of the waker
Wake(t) ==
    /\ Running(t)
    /\ \/ /\ frames[t].at = "run"
          /\ Plain("wake") \in Calls(t)
          /\ frames' = [frames EXCEPT ![t].at = "notify"]
       \/ /\ frames[t].at = "poll"
          /\ frames' = [frames EXCEPT ![t].at = "poll_notify"]
    /\ schedule(set_action(threads, 0, "Opaque"), objects)
    /\ UNCHANGED <<iter, closure, builder, last, stlog, hb, sclog, explored>>

\* Notify::notify after its branch point
Notified(t) ==
    /\ Running(t)
    /\ frames[t].at \in {"notify", "poll_notify"}
    /\ LET r == Notify_notify(objects[0], threads, 0)
       IN  /\ threads' = r.threads
           /\ objects' = [objects EXCEPT ![0] = r.state]
    /\ last' = [NoOp EXCEPT !.kind = "notify", !.thread = t]
    /\ frames' = IF frames[t].at = "notify" THEN returned(t)
                 ELSE [frames EXCEPT ![t].at = "poll"]
    /\ UNCHANGED <<path, status, iter, closure, builder, stlog, hb, sclog,
                   explored, replay>>

\* The poll of block_on returns: Ready with a value, or Pending while the
\* future has polls left
Poll(t) ==
    /\ Running(t)
    /\ frames[t].at = "poll"
    /\ \E res \in [ready : {TRUE}, value : 0..MaxValue]
                 \cup (IF frames[t].polls < MaxPolls
                       THEN {[ready |-> FALSE, value |-> 0]} ELSE {}) :
        /\ last' = [NoOp EXCEPT !.kind = "poll", !.thread = t,
                                 !.ok = res.ready, !.index = res.value,
                                 !.ret = block_on_loop(res).ret]
        /\ frames' = [frames EXCEPT ![t].at = block_on_loop(res).at]
    /\ UNCHANGED <<threads, objects, path, status, iter, closure, builder,
                   stlog, hb, sclog, explored, replay>>

\* Notify::wait up to its branch point: a spurious wakeup, once, yields and
\* returns; else the thread branches, blocked unless it has been notified
Wait(t) ==
    /\ Running(t)
    /\ frames[t].at = "wait"
    /\ \/ /\ objects[0].spurious /\ ~objects[0].did_spur
          /\ frames' = [frames EXCEPT ![t].at = "poll", ![t].polls = @ + 1]
          /\ schedule([threads EXCEPT !.threads[t] =
                          [set_yield(@, t) EXCEPT !.operation = None]],
                      [objects EXCEPT ![0].did_spur = TRUE])
       \/ /\ frames' = [frames EXCEPT ![t].at = "waited"]
          /\ schedule(IF objects[0].notified
                      THEN set_action(threads, 0, "Opaque")
                      ELSE branch_acquire(threads, 0, TRUE), objects)
    /\ last' = [NoOp EXCEPT !.kind = "wait", !.thread = t,
                             !.ok = objects[0].notified]
    /\ UNCHANGED <<iter, closure, builder, stlog, hb, sclog, explored>>

\* Notify::wait after its branch point, and the next turn of the loop of
\* block_on
Waited(t) ==
    /\ Running(t)
    /\ frames[t].at = "waited"
    /\ IF objects[0].notified
       THEN LET r == Notify_waited(objects[0], threads)
            IN  /\ threads' = r.threads
                /\ objects' = [objects EXCEPT ![0] = r.state]
                /\ frames' = [frames EXCEPT ![t].at = "poll",
                                            ![t].polls = @ + 1]
                /\ last' = [NoOp EXCEPT !.kind = "waited", !.thread = t]
                /\ status' = status
       ELSE /\ status' = "panic"
            /\ last' = [NoOp EXCEPT !.kind = "assert", !.thread = t]
            /\ UNCHANGED <<threads, objects, frames>>
    /\ UNCHANGED <<path, iter, closure, builder, stlog, hb, sclog, explored,
                   replay>>

\* One run of an arbitrary closure that blocks on a future, under an
\* arbitrary Path
NextFuture ==
    \E t \in Tids :
        \/ Spawn(t) \/ BlockOn(t) \/ Poll(t) \/ Wake(t) \/ Notified(t)
        \/ Wait(t) \/ Waited(t) \/ ThreadDone(t)

InitFuture ==
    /\ builder = [Builder_new EXCEPT !.max_branches = FutureBranches]
    /\ closure = "future"
    /\ Fresh

SpecFuture == InitFuture /\ [][NextFuture]_vars

\* The running thread goes on until the run ends
FairFuture == SpecFuture /\ WF_vars(NextFuture)

\* Ref::get or Ref::get_mut through a reference of type T to entry i
StoreGet(i, T) ==
    /\ status = "running"
    /\ LET r == Ref_get([index |-> i, ty |-> T], objects)
       IN  /\ last' = [kind |-> "get", index |-> i, ty |-> T, result |-> r]
           /\ status' = IF r.ok THEN status ELSE "panic"
    /\ UNCHANGED <<threads, objects, path, frames, iter, closure, builder,
                   stlog, hb, sclog, explored, replay>>

\* Ref::downcast of the untyped reference to entry i
StoreDowncast(i, T) ==
    /\ status = "running"
    /\ last' = [kind |-> "downcast", index |-> i, ty |-> T,
                result |-> Ref_downcast([index |-> i, ty |-> "()"], T,
                                        objects)]
    /\ UNCHANGED <<threads, objects, path, frames, status, iter, closure,
                   builder, stlog, hb, sclog, explored, replay>>

\* Store::set_last_access for an operation on entry i
StoreSetLastAccess(i, path_id) ==
    /\ status = "running"
    /\ last' = [kind |-> "set_last_access", index |-> i, ty |-> "()",
                result |-> Some(path_id)]
    /\ IF branchable(objects[i])
       THEN /\ objects' = set_last_access(objects,
                              [obj |-> i, action |-> "Opaque"], path_id,
                              VersionVec_new(capacity))
            /\ status' = status
       ELSE /\ status' = "panic"
            /\ objects' = objects
    /\ UNCHANGED <<threads, path, frames, iter, closure, builder, stlog, hb,
                   sclog, explored, replay>>

\* Store::last_dependent_access for an operation on entry i
StoreLastDependentAccess(i) ==
    /\ status = "running"
    /\ IF branchable(objects[i])
       THEN /\ last' = [kind |-> "last_dependent_access", index |-> i,
                        ty |-> "()", result |-> objects[i].last_access]
            /\ status' = status
       ELSE /\ last' = [kind |-> "last_dependent_access", index |-> i,
                        ty |-> "()", result |-> None]
            /\ status' = "panic"
    /\ UNCHANGED <<threads, objects, path, frames, iter, closure, builder,
                   stlog, hb, sclog, explored, replay>>

\* Accesses to an object store of up to MaxEntries entries of any variants
NextStore ==
    \E i \in DOMAIN objects :
        \/ \E T \in Tags : StoreGet(i, T)
        \/ \E T \in Tags : StoreDowncast(i, T)
        \/ \E path_id \in 0..1 : StoreSetLastAccess(i, path_id)
        \/ StoreLastDependentAccess(i)

InitStore ==
    /\ builder = Builder_new
    /\ closure = "store"
    /\ threads = Set_new
    /\ \E n \in 1..MaxEntries :
          objects \in [0..(n - 1) -> {EntryOf(tag) : tag \in Tags}]
    /\ path = Path_new
    /\ frames = push(EmptyVec, Frame_new)
    /\ status = "running"
    /\ iter = 1
    /\ last = NoOp
    /\ stlog = EmptyVec
    /\ hb = [t |-> [u \in Tids |-> {}], sc |-> {}]
    /\ sclog = VersionVec_new(capacity)
    /\ explored = {}
    /\ replay = {}

SpecStore == InitStore /\ [][NextStore]_vars

\* Builder::check runs on one OS thread that never waits: the driver loop and
\* the cooperative scheduler always take their next step
FairCheck == InitCheck /\ [][NextCheck]_vars /\ WF_vars(NextCheck)

-----------------------------------------------------------------------------
(* Properties of one run *)

Max(set) == CHOOSE x \in set : \A y \in set : x >= y

elems(seq) == {seq[k] : k \in DOMAIN seq}

\* The log of the stores of the object the last operation acted on
lastlog == stlog[last.obj]

\* The thread that performed the last operation, as it is now
lastthread == threads.threads[last.thread]

\* C1: a load by T never returns a store older than the newest store T has
\* already observed (written by T, returned to T earlier, or first seen by a
\* thread at a version within T's causality), and never an index outside the
\* history.
C1_LoadNotOlderThanObserved ==
    last.kind = "load" =>
        /\ last.index \in 0..(last.len - 1)
        /\ \A i \in last.seen : last.index >= i

\* A load that had two candidates, with a store newer than the initial one
\* already observed, and that returned that observed store
C1_Witness ==
    /\ last.kind = "load"
    /\ last.cands = <<2, 1>>
    /\ last.index = 1
    /\ 1 \in last.seen

C3_Unobserved ==
    /\ last.kind = "load"
    /\ last.order = "Acquire"
    /\ last.len = 2
    /\ lastlog[1].order = "Release"
    /\ lastlog[1].by # last.thread
    /\ 1 \notin last.seen

\* The last operation is an Acquire load that returned a Release store written
\* by another thread
C3_AcquiredRelease ==
    /\ last.kind = "load"
    /\ last.order = "Acquire"
    /\ lastlog[last.index].order = "Release"
    /\ ~lastlog[last.index].rmw
    /\ lastlog[last.index].by # last.thread

laststores == {<<last.obj, i>> : i \in 0..(last.len - 1)}

\* C4: the assertion of get_mut holds when every store of the history happens
\* before the caller, and fails whenever the history has a store by another
\* thread that does not happen before the caller, a Relaxed one included.
C4_GetMutAssertion ==
    last.kind = "get_mut" =>
        /\ laststores \subseteq last.before => last.ok
        /\ (\E i \in 0..(last.len - 1) :
                /\ lastlog[i].by # last.thread
                /\ <<last.obj, i>> \notin last.before) => ~last.ok

\* The half of C4 the assertion meets: it holds when every store of the
\* history happens before the caller
C4_HoldsWhenOrdered ==
    (last.kind = "get_mut" /\ laststores \subseteq last.before) => last.ok

\* Sequentially consistent operations so far: none of sclog is ahead of the
\* global vector
seq_cst_op(kind, order) == kind \in {"load", "store", "rmw"} /\ is_seq_cst(order)

\* C5: the global seq-cst vector never decreases in a run, and after a SeqCst
\* operation by T, T's causality is pointwise >= the causality every earlier
\* SeqCst operation was performed with.
C5_SeqCstOrdered ==
    [][/\ vv_le(threads.seq_cst_causality, threads'.seq_cst_causality)
       /\ (last' # last /\ seq_cst_op(last'.kind, last'.order)) =>
            /\ vv_le(sclog, threads'.threads[last'.thread].causality)
            /\ vv_le(sclog', threads'.threads[last'.thread].causality)]_vars

\* A SeqCst operation that learnt of another thread's progress from the
\* SeqCst operations before it
C5_Witness ==
    /\ seq_cst_op(last.kind, last.order)
    /\ \E u \in Tids : u # last.thread /\ last.pre[u] < sclog[u]
    /\ vv_le(sclog, lastthread.causality)

\* C6: an rmw reads the latest store of the history; a successful rmw grows
\* the history by one store, a failed one leaves its length unchanged.
C6_RmwReadsLatest ==
    last.kind = "rmw" =>
        /\ last.index = last.len - 1
        /\ len(objects[last.obj].history.stores) =
              last.len + (IF last.ok THEN 1 ELSE 0)
        /\ len(lastlog) = len(objects[last.obj].history.stores)

\* A successful rmw on a history of two stores, reading the store another
\* thread wrote
C6_Witness ==
    /\ last.kind = "rmw"
    /\ last.ok
    /\ last.len = 2
    /\ last.index = 1
    /\ lastlog[1].by # last.thread
    /\ len(objects[last.obj].history.stores) = 3

\* The store that heads the release sequence store i of log belongs to: the
\* newest store up to i that no rmw wrote
head(log, i) == Max({j \in 0..i : ~log[j].rmw})

\* C7: an Acquire load that returns the store of an rmw acquires the causality
\* of the Release store heading the chain the rmw continues, whatever the
\* ordering and thread of the rmw.
C7_ReleaseSequence ==
    (/\ last.kind = "load"
     /\ acquires(last.order)
     /\ lastlog[last.index].rmw
     /\ lastlog[head(lastlog, last.index)].order = "Release")
    => vv_le(lastlog[head(lastlog, last.index)].at, lastthread.causality)

\* An Acquire load returning the store of a Relaxed rmw, made by a thread
\* other than the one whose Release store heads the chain, the loader not
\* having had that thread's causality before
C7_Witness ==
    /\ last.kind = "load"
    /\ last.order = "Acquire"
    /\ lastlog[last.index].rmw
    /\ lastlog[last.index].order = "Relaxed"
    /\ LET h == lastlog[head(lastlog, last.index)]
       IN  /\ h.order = "Release"
           /\ h.by # lastlog[last.index].by
           /\ ~vv_le(h.at, last.pre)
           /\ vv_le(h.at, lastthread.causality)

-----------------------------------------------------------------------------
(* Properties of Builder::check *)

\* The set of logs E leaves no alternative untried: whatever alternative a
\* decision of a log in E was offered, some log in E took it after the same
\* decisions
Complete(E) ==
    \A b \in E : \A k \in 1..Len(b) : \A j \in 1..Len(b[k].alts) :
        \E c \in E :
            /\ Len(c) >= k
            /\ \A i \in 1..(k - 1) : c[i] = b[i]
            /\ c[k] = [b[k] EXCEPT !.idx = j]

latest_untried(b) ==
    Max({0} \cup {k \in 1..Len(b) : b[k].idx < Len(b[k].alts)})

\* C9: Path::step advances the latest decision with an untried alternative to
\* its next alternative, discards the decisions after it and keeps those
\* before it; it returns false exactly when no decision has an untried
\* alternative; no decision sequence is run in two iterations of one check.
C9_StepBacktracks ==
    [][(status = "complete" /\ closure # "any") =>
         LET b == path.branches
             K == latest_untried(b)
         IN  /\ picks(b) \notin {picks(e) : e \in explored}
             /\ IF K = 0
                THEN status' = "finished"
                ELSE /\ status' = "running"
                     /\ Len(path'.branches) = K
                     /\ \A k \in 1..(K - 1) : path'.branches[k] = b[k]
                     /\ path'.branches[K] = [b[K] EXCEPT !.idx = @ + 1]
                     /\ path'.pos = 0]_vars

\* An iteration about to replay a log that Path::step cut by at least two
\* decisions, below decisions it kept
C9_Witness ==
    /\ status = "running"
    /\ path.pos = 0
    /\ Len(path.branches) >= 2
    /\ \E b \in explored :
        LET K == Len(path.branches)
        IN  /\ Len(b) >= K + 2
            /\ SubSeq(b, 1, K - 1) = SubSeq(path.branches, 1, K - 1)
            /\ path.branches[K] = [b[K] EXCEPT !.idx = @ + 1]

\* An iteration of check is at its start: the closure has made no call yet
IterationStart ==
    /\ closure # "any"
    /\ status = "running"
    /\ path.pos = 0
    /\ frames[0].pc = 0
    /\ frames[0].at = "run"

\* C10: at the start of every iteration the object store is empty, the thread
\* set holds only thread 0, Runnable and active, every causality vector and
\* the global seq-cst vector are all zero, and no history of an earlier
\* iteration is visible; only the Path carries over.
C10_IterationStartsFresh ==
    IterationStart =>
        /\ len(objects) = 0
        /\ DOMAIN threads.threads = {0}
        /\ threads.active = Some(0)
        /\ is_runnable(threads.threads[0])
        /\ threads.threads[0].operation = None
        /\ threads.threads[0].last_yield = None
        /\ threads.threads[0].yield_count = 0
        /\ \A u \in Tids :
            /\ threads.threads[0].causality[u] = 0
            /\ threads.threads[0].dpor_vv[u] = 0
            /\ threads.seq_cst_causality[u] = 0
            /\ hb.t[u] = {}
        /\ len(stlog) = 0
        /\ DOMAIN frames = {0}

\* The start of a later iteration, the Path holding the log it will replay
C10_Witness ==
    /\ IterationStart
    /\ iter >= 3
    /\ path.branches # <<>>
    /\ explored # {}
    /\ len(objects) = 0

-----------------------------------------------------------------------------
(* Properties of scheduling *)

\* Thread u, which is not the active one, does nothing in the step: what only
\* its own calls change stays as it is, and its state changes at most to
\* Runnable, by an unpark or by the scheduler after a yield
Idle(u) ==
    LET a == threads.threads[u]
        b == threads'.threads[u]
    IN  /\ b.operation = a.operation
        /\ b.critical = a.critical
        /\ b.yield_count = a.yield_count
        /\ b.last_yield = a.last_yield
        /\ b.causality[u] = a.causality[u]
        /\ frames'[u] = frames[u]
        /\ b.state # a.state => b.state = "Runnable"

\* C11: at most one thread is active; a thread that is not active performs no
\* operation until a decision of the Path makes it active; a Blocked or
\* Terminated thread is never made active (a run that failed has no active
\* thread to speak of).
C11_OneThreadRuns ==
    [][/\ \A u \in DOMAIN threads.threads : threads.active # Some(u) => Idle(u)
       /\ threads'.active # threads.active => path'.pos = path.pos + 1
       /\ (is_some(threads'.active) /\ status' # "panic") =>
            /\ unwrap(threads'.active) \in DOMAIN threads'.threads
            /\ threads'.threads[unwrap(threads'.active)].state
                  \in {"Runnable", "Yield"}]_vars

\* Thread 1 runs on, two decisions into the run, while thread 0 is Blocked
C11_Witness ==
    /\ closure = "sched"
    /\ status = "running"
    /\ threads.active = Some(1)
    /\ threads.threads[0].state = "Blocked"
    /\ path.pos >= 2

\* C12: a run ends only with every spawned thread Terminated or with a
\* failure. A run that scheduler.run returned from normally (the only state
\* Builder::check calls Path::step in) has no thread Runnable, Blocked or
\* Yield; a run that goes on has an active thread; and a state with no thread
\* to run while some thread is not Terminated (all remaining ones Blocked) is
\* a failure, not a completed iteration.
C12_RunEndsTerminatedOrFails ==
    /\ status = "complete" =>
          \A i \in DOMAIN threads.threads :
              threads.threads[i].state = "Terminated"
    /\ status = "running" => is_some(threads.active)
    /\ (/\ threads.active = None
        /\ \E i \in DOMAIN threads.threads :
              threads.threads[i].state # "Terminated") => status = "panic"

\* Both threads parked with nobody left to unpark them: the run has failed
C12_Witness ==
    /\ closure = "sched"
    /\ len(threads.threads) = 2
    /\ \A i \in DOMAIN threads.threads : threads.threads[i].state = "Blocked"
    /\ threads.active = None
    /\ status = "panic"

-----------------------------------------------------------------------------
(* Properties of replay *)

-----------------------------------------------------------------------------
(* Properties of rt::critical *)

\* C14: while the closure passed to critical is executing (thread t is
\* inside at least one call of critical that has not returned), no step
\* makes another thread active: every branch point reached inside keeps t
\* active.
C14_CriticalKeepsActive ==
    [][\A t \in DOMAIN frames :
          (/\ frames[t].crit > 0
           /\ threads.threads[t].state = "Runnable"
           /\ threads.active = Some(t)) => threads'.active = Some(t)]_vars

\* What holds: a runnable thread whose critical flag is set stays active.
\* The flag is one bool, cleared when any call of critical returns, a nested
\* one included.
C14_FlagKeepsActive ==
    [][\A t \in DOMAIN frames :
          (/\ threads.threads[t].critical
           /\ threads.threads[t].state = "Runnable"
           /\ threads.active = Some(t)) => threads'.active = Some(t)]_vars

\* Thread 0 is inside an outer critical whose nested critical has returned
\* and has reached a branch point with thread 1 runnable
C14_NestedReturned ==
    /\ closure = "sched"
    /\ len(threads.threads) = 2
    /\ frames[0].crit = 1
    /\ ~threads.threads[0].critical
    /\ threads.active = Some(1)
    /\ status = "running"

-----------------------------------------------------------------------------
(* Properties of fence *)

\* The call thread t is about to make is a fence with an ordering other than
\* Acquire
RejectedFence(t) ==
    /\ threads.active = Some(t)
    /\ frames[t].at = "run"
    /\ \E c \in Calls(t) : c.op = "fence" /\ c.order # "Acquire"

\* C15: fence called with an ordering other than Acquire fails with an
\* assertion before any state is changed: the step of the rejected call ends
\* the run in a panic and leaves every thread's causality, every store
\* record, the log of decisions and the active thread as they were.
C15_FenceRejected ==
    [][\A t \in DOMAIN frames :
          (status = "running" /\ RejectedFence(t)) =>
              /\ status' = "panic"
              /\ threads' = threads
              /\ objects' = objects
              /\ path' = path
              /\ stlog' = stlog
              /\ hb' = hb]_vars

\* A rejected fence whose caller had seen a Release store of another thread
C15_Witness ==
    /\ status = "panic"
    /\ \E t \in DOMAIN frames :
        /\ RejectedFence(t)
        /\ \E x \in seen_by(t) : stlog[x[1]][x[2]].by # t
                                  /\ stlog[x[1]][x[2]].order = "Release"

\* The join of the release vectors of the stores in set into the vector vv
RECURSIVE joined(_, _)
joined(vv, set) ==
    IF set = {} THEN vv
    ELSE LET x == CHOOSE y \in set : TRUE
         IN  joined(vv_join(vv,
                 objects[x[1]].history.stores[x[2]].sync.happens_before),
                 set \ {x})

\* The last operation was a fence(Acquire)
Fenced == last.kind = "fence" /\ last.order = "Acquire"

\* After B read a Release store of A with a Relaxed load, fence(Acquire) by
\* B leaves B's causality pointwise >= A's causality at that store
C16_FenceAcquires ==
    Fenced =>
        \A x \in seen_by(last.thread) :
            stlog[x[1]][x[2]].order = "Release" =>
                vv_le(stlog[x[1]][x[2]].at, lastthread.causality)

\* C16: after thread B has read a Release store of thread A with a Relaxed
\* load, a following fence(Acquire) by B makes B's causality pointwise >= A's
\* causality at the time of that store; the fence joins the release vector of
\* exactly the stores B has already seen (read or written), and the stores B
\* has not seen contribute nothing: B's causality after the fence is its
\* causality before, joined with the vectors of the stores it has seen, its
\* own clock advanced by one.
C16_FenceJoinsSeen ==
    /\ C16_FenceAcquires
    /\ Fenced =>
          lastthread.causality =
              vv_inc(joined(last.pre, seen_by(last.thread)), last.thread)

\* Thread 0 has fenced without ever reading the store of thread 2, which
\* thread 1 read with a Relaxed load after its first operation, and knows the
\* clock of thread 2
C16_UnseenJoined ==
    /\ closure = "fence3"
    /\ Fenced
    /\ last.thread = 0
    /\ \E x \in (UNION {{o} \X DOMAIN stlog[o] : o \in DOMAIN stlog}) :
        /\ stlog[x[1]][x[2]].by = 2
        /\ stlog[x[1]][x[2]].at[2] >= 1
        /\ is_some(stlog[x[1]][x[2]].obs[1])
        /\ unwrap(stlog[x[1]][x[2]].obs[1]) >= 1
        /\ x \notin seen_by(0)
        /\ x \notin hb.t[0]
    /\ lastthread.causality[2] > last.pre[2]

-----------------------------------------------------------------------------
(* Properties of spawn *)

\* C17: spawning when the thread set already holds max_threads threads is a
\* fatal assertion failure that adds no thread; otherwise the new thread gets
\* the index equal to the number of threads created so far in the run and
\* starts Runnable. The set never holds more than max_threads threads, and
\* within a run it only grows, one index at a time, so no index is reused.
C17_SpawnCapped ==
    [][/\ len(threads'.threads) <= capacity
       /\ DOMAIN threads.threads \subseteq DOMAIN threads'.threads
       /\ len(threads'.threads) # len(threads.threads) =>
             /\ len(threads'.threads) = len(threads.threads) + 1
             /\ threads'.threads[len(threads.threads)].state = "Runnable"
       /\ \A t \in DOMAIN frames :
             Spawn(t) =>
                IF len(threads.threads) >= capacity
                THEN status' = "panic" /\ threads' = threads
                ELSE /\ status' = "running"
                     /\ len(threads'.threads) = len(threads.threads) + 1
                     /\ threads'.threads[len(threads.threads)].state =
                            "Runnable"]_vars

\* A run that failed at a spawn: the set is full, thread 1 was created
\* Runnable, and no other failure has happened
C17_Witness ==
    /\ closure = "sched"
    /\ status = "panic"
    /\ len(threads.threads) = capacity
    /\ is_some(threads.active)
    /\ frames[unwrap(threads.active)].at = "run"
    /\ path.pos < builder.max_branches

-----------------------------------------------------------------------------
(* Properties of the bounds of Builder::check *)

\* The number of times Builder::check has started the closure: every
\* iteration counted by i but the one it returned at
runs == IF status = "stopped" THEN iter - 1 ELSE iter

\* C18: with max_permutations = Some(n), Builder::check runs the closure no
\* more than n times, whatever checkpoint_interval is.
C18_AtMostN ==
    is_some(builder.max_permutations) =>
        runs <= unwrap(builder.max_permutations)

\* What holds: check returns on account of max_permutations only at an
\* iteration that is a multiple of checkpoint_interval, and runs every
\* iteration before the first such multiple that is >= n
C18_StopsAtCheckpoint ==
    is_some(builder.max_permutations) =>
        /\ status = "stopped" =>
              /\ iter % builder.checkpoint_interval = 0
              /\ iter >= unwrap(builder.max_permutations)
        /\ \A i \in 1..runs :
              ~(/\ i % builder.checkpoint_interval = 0
                /\ i >= unwrap(builder.max_permutations))

\* With max_permutations = Some(1) and checkpoint_interval = 3 the closure
\* is running for the second time
C18_Overrun ==
    /\ builder.max_permutations = Some(1)
    /\ builder.checkpoint_interval = 3
    /\ iter = 2
    /\ status = "running"
    /\ path.pos >= 1

\* A step of thread t that asks the Path for a scheduling decision
Decides(t) == Branch(t) \/ YieldNow(t) \/ ThreadDone(t) \/ Park(t)

-----------------------------------------------------------------------------
(* Properties of the leak check *)

\* An allocation that was never freed or an Arc that is still referenced
leaked ==
    \E i \in DOMAIN objects :
        \/ objects[i].tag = "Alloc" /\ objects[i].is_allocated
        \/ objects[i].tag = "Arc" /\ objects[i].ref_cnt > 0

\* C20: after an iteration whose closure ran to completion the leak check
\* comes before Path::step. With an Alloc or an Arc leaked the check fails
\* and the Path is not stepped; with none leaked, whatever objects of other
\* kinds the store holds, nothing fails and the Path is stepped.
C20_LeakCheckedBeforeStep ==
    [][(status = "complete" /\ status' # "complete") =>
          IF leaked
          THEN status' = "panic" /\ path' = path /\ iter' = iter
          ELSE /\ status' \in {"running", "finished", "stopped"}
               /\ path' = Path_step(path).path]_vars

\* The iteration completed with the Arc still referenced by the spawned
\* thread, and the check failed
C20_Witness ==
    /\ closure = "arc_leaked"
    /\ status = "panic"
    /\ \A i \in DOMAIN threads.threads :
          threads.threads[i].state = "Terminated"
    /\ len(threads.threads) = 2
    /\ objects[0].tag = "Arc"
    /\ objects[0].ref_cnt = 1

\* A later iteration over a store that held only an atomic: no leak failure
C20_AtomicsPass ==
    /\ closure = "relaxed2"
    /\ iter >= 2
    /\ status = "running"

-----------------------------------------------------------------------------
(* Properties of failures *)

\* C21: a fatal failure raised inside the closure, in thread 0 or in a
\* spawned thread, propagates out of check at the violation point: the step
\* that fails leaves the iteration count and the Path as they are, and
\* nothing follows a failure, neither a further operation of the failed
\* iteration nor a later iteration nor a retry.
C21_FailurePropagates ==
    [][/\ status # "panic"
       /\ status' = "panic" =>
             /\ iter' = iter
             /\ path' = path
             /\ explored' = explored]_vars

\* A spawned thread failed in a later iteration with permutations left to
\* try
C21_Witness ==
    /\ closure = "panic_spawned"
    /\ status = "panic"
    /\ threads.active = Some(1)
    /\ iter >= 2
    /\ Path_step(path).more

\* Thread 0 failed while the thread it spawned had still to run
C21_MainFailed ==
    /\ closure = "panic_main"
    /\ status = "panic"
    /\ threads.active = Some(0)
    /\ threads.threads[1].state = "Runnable"

-----------------------------------------------------------------------------
(* Properties of the object store *)

\* C22: typed access through a Ref<T> returns the entry only when the
\* variant stored at the index is T, and is a fatal failure otherwise;
\* recording or looking up the last access of an Alloc or Cell entry is
\* fatal, and of any other entry is not; Ref::downcast returns Some exactly
\* when the stored variant matches, keeping the index.
C22_TypedAccess ==
    /\ last.kind = "get" =>
          /\ last.result.ok <=> objects[last.index].tag = last.ty
          /\ last.result.ok => last.result.value = objects[last.index]
          /\ status = "panic" <=> ~last.result.ok
    /\ last.kind = "downcast" =>
          /\ status = "running"
          /\ last.result =
                IF objects[last.index].tag = last.ty
                THEN Some([index |-> last.index, ty |-> last.ty]) ELSE None
    /\ last.kind \in {"set_last_access", "last_dependent_access"} =>
          status = "panic" <=> objects[last.index].tag \in {"Alloc", "Cell"}
    /\ (last.kind = "set_last_access" /\ status = "running") =>
          /\ is_some(objects[last.index].last_access)
          /\ unwrap(objects[last.index].last_access).path_id =
                unwrap(last.result)

\* A typed access that failed on a mismatch, in a store that also holds an
\* entry of the requested type
C22_Witness ==
    /\ closure = "store"
    /\ last.kind = "get"
    /\ status = "panic"
    /\ len(objects) = 2
    /\ \E j \in DOMAIN objects : objects[j].tag = last.ty

-----------------------------------------------------------------------------
(* Properties of the mutex *)

\* The threads that hold a MutexGuard
holders == {t \in DOMAIN frames : frames[t].guard}

\* The states of a thread that the scheduler may pick
Schedulable == {"Runnable", "Yield"}

\* The threads inside Mutex::lock
lockers == {t \in DOMAIN frames : frames[t].at = "lock"}

\* C23: at most one thread holds a MutexGuard at any time; a thread inside
\* lock while the mutex is held (by whoever) is Blocked and has no guard
\* from that call; once the guard is dropped the lock is free and every
\* thread inside lock can be scheduled again, so that it can take the lock.
C23_MutualExclusion ==
    /\ Cardinality(holders) <= 1
    /\ \A t \in holders : objects[0].lock = Some(t)
    /\ (status = "running" /\ holders # {}) =>
          \A t \in lockers : is_blocked(threads.threads[t])
    /\ (status = "running" /\ holders = {} /\ len(objects) > 0) =>
          /\ ~is_locked(objects[0])
          /\ \A t \in lockers : threads.threads[t].state \in Schedulable
    /\ last.kind = "lock" => last.ok

\* Thread 1 is blocked inside lock while thread 0 holds the guard
C23_Witness ==
    /\ closure = "mutex"
    /\ status = "running"
    /\ holders = {0}
    /\ lockers = {1}
    /\ is_blocked(threads.threads[1])

\* Thread 0 has dropped its guard and thread 1, which was inside lock, can
\* run
C23_Released ==
    /\ closure = "mutex"
    /\ status = "running"
    /\ last.kind = "guard_drop" /\ last.thread = 0
    /\ lockers = {1}
    /\ is_runnable(threads.threads[1])

\* Thread 1 has come out of lock with the guard after thread 0 dropped its
\* own and ended
C23_HandedOver ==
    /\ closure = "mutex"
    /\ holders = {1}
    /\ last.kind = "lock" /\ last.thread = 1
    /\ is_terminated(threads.threads[0])

-----------------------------------------------------------------------------
(* Properties of block_on *)

\* Thread 0 is inside block_on
Blocking == frames[0].at \in {"poll", "poll_notify", "wait", "waited"}

\* The run was ended by the bound on its decisions
Bounded == status = "panic" /\ is_some(threads.active) /\ last.kind # "assert"

\* C24: block_on returns in exactly the steps in which a poll returns
\* Ready, and returns the value of that poll; after a poll that returns
\* Pending it goes on to wait on its notifier; a thread about to wait that
\* has been notified is not blocked; and whenever the notifier has been
\* notified while block_on is polling or about to wait, block_on polls
\* again or returns (unless the bound on decisions ends the run).
C24_BlockOn ==
    /\ [][/\ (Blocking /\ ~Blocking') <=>
                (last' # last /\ last'.kind = "poll" /\ last'.ok)
          /\ (Blocking /\ ~Blocking') =>
                /\ frames'[0].at = "run"
                /\ last'.ret = Some(last'.index)
          /\ (last' # last /\ last'.kind = "poll" /\ ~last'.ok) =>
                frames'[0].at = "wait"
          /\ (last' # last /\ last'.kind = "wait" /\ last'.ok
                /\ frames'[0].at = "waited") =>
                ~is_blocked(threads'.threads[0])]_vars
    /\ \A k \in 1..MaxPolls :
          (/\ status = "running" /\ Blocking /\ frames[0].polls = k
           /\ objects[0].notified)
          ~> (frames[0].polls > k \/ ~Blocking \/ Bounded)

\* Thread 0 polls for the second time after a wake that was delivered before
\* its wait began, without a spurious wakeup
C24_Witness ==
    /\ closure = "future"
    /\ status = "running"
    /\ frames[0].at = "poll"
    /\ frames[0].polls = 2
    /\ last.kind = "waited"
    /\ ~objects[0].did_spur
    /\ ~is_some(threads.threads[0].last_yield)
    /\ path.pos = 2

\* block_on has returned the value of its third poll
C24_Returned ==
    /\ closure = "future"
    /\ frames[0].at = "run"
    /\ frames[0].polls = MaxPolls
    /\ last.kind = "poll" /\ last.ret = Some(1)

-----------------------------------------------------------------------------
(* Properties of causality *)

\* C25: within a run no step lowers any slot of the causality of any thread,
\* whatever the operation: load, store, rmw, fence, unpark, a SeqCst
\* operation, yield or park.
C25_CausalityMonotonic ==
    [][status = "running" =>
          \A t \in DOMAIN threads.threads :
              /\ t \in DOMAIN threads'.threads
              /\ vv_le(threads.threads[t].causality,
                       threads'.threads[t].causality)]_vars

\* Thread 0, parked after its fence, has been unparked by thread 1: it
\* keeps its own clock and has learnt of the load of thread 1
C25_Witness ==
    /\ closure = "causal"
    /\ status = "running"
    /\ frames[0].pc = 4
    /\ len(frames) = 2 /\ frames[1].pc = 2
    /\ is_runnable(threads.threads[0])
    /\ threads.threads[0].causality[0] >= 1
    /\ threads.threads[0].causality[1] >= 1
    /\ threads.threads[1].causality[0] = 0

-----------------------------------------------------------------------------
(* Properties of Relaxed accesses *)

\* The store the last operation wrote or read
laststore == objects[last.obj].history.stores[last.index]

\* C26: a Relaxed store leaves the release vector of the new store empty,
\* whatever the causality of the storing thread; after a Relaxed load the
\* causality of the loader differs from what it was only in its own slot,
\* which has advanced by one.
C26_RelaxedTransfersNothing ==
    /\ (last.kind = "store" /\ last.order = "Relaxed") =>
          version_vec(laststore.sync) = VersionVec_new(capacity)
    /\ (last.kind = "load" /\ last.order = "Relaxed") =>
          \A u \in Tids :
              lastthread.causality[u] =
                  IF u = last.thread THEN last.pre[u] + 1 ELSE last.pre[u]

\* A thread that had acquired the causality of another thread has stored
\* Relaxed
C26_Witness ==
    /\ last.kind = "store" /\ last.order = "Relaxed"
    /\ \A u \in Tids : last.pre[u] >= 1

\* A Relaxed load has returned a store whose release vector holds more than
\* the loader knows
C26_RelaxedLoad ==
    /\ last.kind = "load" /\ last.order = "Relaxed"
    /\ ~vv_le(version_vec(laststore.sync), lastthread.causality)

-----------------------------------------------------------------------------
(* Properties of the initial store *)

\* C27: the initial store of an atomic brings the causality of the thread
\* that created it: after an Acquire (or stronger) load that returns index
\* 0, the causality of the loader covers the causality the creator had when
\* it called Atomic::new.
C27_InitialStoreBringsCausality ==
    (last.kind = "load" /\ acquires(last.order) /\ last.index = 0) =>
        vv_le(stlog[last.obj][0].at, lastthread.causality)

\* The release vector of the initial store of every atomic is empty
C27_InitialStoreEmpty ==
    \A o \in DOMAIN objects :
        objects[o].tag = "Atomic" =>
            version_vec(objects[o].history.stores[0].sync)
                = VersionVec_new(capacity)

\* Thread 1 has read the initial store with an Acquire load and knows
\* nothing of the clock its creator had reached
C27_NothingObtained ==
    /\ closure = "created_late"
    /\ last.kind = "load" /\ last.order = "Acquire" /\ last.index = 0
    /\ last.thread = 1
    /\ stlog[0][0].at[0] >= 1
    /\ lastthread.causality[0] = 0

-----------------------------------------------------------------------------
(* Properties of SeqCst loads *)

\* The stores of the history H with the seq-cst flag set
flagged(H) == {i \in DOMAIN H : H[i].seq_cst}

\* The active thread of S has seen store i of H: a first sight of it lies
\* within its causality, or its own first sight precedes its last yield
sighted(H, i, S) ==
    \/ is_seen_by_current(H[i].first_seen, S)
    \/ is_seen_before_yield(H[i].first_seen, S)

\* A load takes place in this step
Loads == last' # last /\ last'.kind = "load"

\* C28 as stated: for a SeqCst load the newest store with the seq-cst flag
\* set is a candidate and no older store is.
C28_NewestSeqCstAdmitted ==
    [][(Loads /\ last'.order = "SeqCst") =>
          LET H == objects[last'.obj].history.stores
          IN  flagged(H) # {} =>
                /\ Max(flagged(H)) \in elems(last'.cands)
                /\ \A i \in elems(last'.cands) : i >= Max(flagged(H))]_vars

\* C28: for a SeqCst load no store older than the newest store with the
\* seq-cst flag set is a candidate, whether the loader has seen that store
\* or not; that store is a candidate exactly when the loader has seen no
\* newer store and, if its own first sight of it precedes its last yield,
\* the store is the newest of all. A weaker load is not bounded: when the
\* loader has seen neither the newest flagged store nor a newer one, the
\* store just before it is a candidate (unless the loader's own first sight
\* of that store precedes its last yield).
C28_SeqCstBound ==
    [][Loads =>
          LET H == objects[last'.obj].history.stores
              n == Max(flagged(H))
              cands == elems(last'.cands)
              newer == {j \in DOMAIN H : j > n}
          IN  flagged(H) # {} =>
                IF last'.order = "SeqCst"
                THEN /\ \A i \in cands : i >= n
                     /\ n \in cands <=>
                          /\ \A j \in newer : ~sighted(H, j, threads)
                          /\ is_seen_before_yield(H[n].first_seen, threads)
                                => newer = {}
                ELSE (/\ n >= 1
                      /\ \A j \in newer \cup {n} : ~sighted(H, j, threads)
                      /\ ~is_seen_before_yield(H[n - 1].first_seen, threads))
                        => (n - 1) \in cands]_vars

\* A SeqCst load had as its oldest candidate a SeqCst store the loader had
\* not observed, and the store before it, not observed either, was none
C28_Witness ==
    /\ last.kind = "load" /\ last.order = "SeqCst"
    /\ LET H == objects[last.obj].history.stores
           cands == elems(last.cands)
       IN  \E n \in cands :
             /\ n >= 1
             /\ H[n].seq_cst
             /\ n \notin last.seen
             /\ (n - 1) \notin last.seen
             /\ (n - 1) \notin cands
             /\ last.index = n

\* A weaker load has returned a store older than a SeqCst store
C28_WeakerUnbounded ==
    /\ last.kind = "load" /\ last.order = "Acquire"
    /\ LET H == objects[last.obj].history.stores
       IN  \E n \in DOMAIN H : H[n].seq_cst /\ last.index < n

-----------------------------------------------------------------------------
(* Properties of the history of stores *)

\* The record new of a history is the record old, seen by more threads
\* perhaps
kept(old, new) ==
    /\ new.sync = old.sync
    /\ new.seq_cst = old.seq_cst
    /\ \A u \in DOMAIN old.first_seen :
          is_some(old.first_seen[u]) =>
              /\ u \in DOMAIN new.first_seen
              /\ new.first_seen[u] = old.first_seen[u]

\* C29: an atomic store appends exactly one record at the end of the
\* history, flagged seq-cst exactly when its ordering is SeqCst and first
\* seen by the storing thread, and by no other, at the clock the thread had;
\* within a run no step removes, reorders or rewrites a record of a history.
C29_HistoryAppendOnly ==
    [][status = "running" =>
          /\ \A o \in DOMAIN objects :
                /\ o \in DOMAIN objects'
                /\ objects[o].tag = "Atomic" =>
                      LET H == objects[o].history.stores
                          G == objects'[o].history.stores
                      IN  /\ len(G) >= len(H)
                          /\ \A i \in DOMAIN H : kept(H[i], G[i])
          /\ (last' # last /\ last'.kind = "store") =>
                LET H == objects[last'.obj].history.stores
                    G == objects'[last'.obj].history.stores
                    t == last'.thread
                IN  /\ len(G) = len(H) + 1
                    /\ last'.index = len(H)
                    /\ G[len(H)].seq_cst <=> last'.order = "SeqCst"
                    /\ \A u \in DOMAIN G[len(H)].first_seen :
                          G[len(H)].first_seen[u] =
                              IF u = t THEN Some(last'.pre[t]) ELSE None]_vars

\* A thread has stored SeqCst after a store of the other thread that it had
\* not seen: the history holds the initial store and both stores in order
C29_Witness ==
    /\ last.kind = "store" /\ last.order = "SeqCst"
    /\ LET H == objects[last.obj].history.stores
       IN  /\ len(H) = 3 /\ last.index = 2
           /\ H[2].seq_cst /\ ~H[1].seq_cst
           /\ is_some(H[2].first_seen[last.thread])
           /\ ~is_some(H[1].first_seen[last.thread])
           /\ last.pre[last.thread] >= 1

-----------------------------------------------------------------------------
(* Properties of park *)

\* C30: park leaves its caller Blocked with no pending operation and hands
\* control to the scheduler: the caller is no longer the running thread. A
\* Blocked thread executes nothing and is not made the running thread; it
\* leaves Blocked only for Runnable, in a step in which another thread
\* unparks it; and a thread that was not running becomes the running thread
\* only by a decision of the Path, which never picks a Blocked thread.
C30_ParkBlocksUntilUnparked ==
    [][status = "running" =>
        \A t \in DOMAIN threads.threads :
            LET th == threads.threads[t]
                th2 == threads'.threads[t]
            IN  /\ Park(t) =>
                      /\ is_blocked(th2)
                      /\ th2.operation = None
                      /\ status' = "running" => threads'.active # Some(t)
                /\ is_blocked(th) =>
                      /\ frames'[t] = frames[t]
                      /\ threads'.active # Some(t)
                      /\ ~is_blocked(th2) =>
                            /\ is_runnable(th2)
                            /\ \E u \in Tids \ {t} : Unpark(u)
                /\ (threads'.active = Some(t) /\ threads.active # Some(t)) =>
                      /\ path'.pos = path.pos + 1
                      /\ ~is_blocked(th)]_vars

\* Thread 0 is parked and thread 1 runs
C30_Witness ==
    /\ closure = "sched"
    /\ status = "running"
    /\ len(threads.threads) = 2
    /\ is_blocked(threads.threads[0])
    /\ threads.threads[0].operation = None
    /\ threads.active = Some(1)

-----------------------------------------------------------------------------
(* First-seen tables *)

\* C31: the first-seen table of every store of every atomic has one slot for
\* every thread index below max_threads, so that the lookup a load makes for
\* the loading thread (is_seen_before_yield indexes the table with the id of
\* the active thread) is in range whichever thread created the atomic and
\* whether or not the loading thread has yielded; and a load that has got
\* past its branch point picks a store and returns without a failure.
C31_FirstSeenCovers ==
    /\ \A o \in DOMAIN objects :
          objects[o].tag = "Atomic" =>
              \A i \in DOMAIN objects[o].history.stores :
                  DOMAIN objects[o].history.stores[i].first_seen = Tids
    /\ last.kind = "load" =>
          /\ last.index \in DOMAIN objects[last.obj].history.stores
          /\ is_some(objects[last.obj].history.stores[last.index]
                         .first_seen[last.thread])

\* Thread 1, which has yielded, has loaded the initial store of an atomic
\* thread 0 created
C31_Witness ==
    /\ last.kind = "load"
    /\ status = "running"
    /\ last.thread = 1
    /\ stlog[last.obj][0].by = 0
    /\ is_some(threads.threads[1].last_yield)
    /\ last.index = 0

\* Thread 0 has loaded from an atomic thread 1 created
C31_LoadedByOther ==
    /\ last.kind = "load"
    /\ last.thread = 0
    /\ stlog[last.obj][0].by = 1

-----------------------------------------------------------------------------
(* unpark *)

\* C32: unpark(target) by the active thread t joins the causality of t into
\* that of the target and makes the target Runnable exactly when it was
\* Blocked or Yield: a Terminated target stays Terminated, a Runnable one
\* stays Runnable, and when the target is t itself nothing changes.  No
\* other thread, no other field of the target and not the active thread
\* change.
C32_UnparkFrame ==
    [][\A t \in DOMAIN threads.threads :
         Unpark(t) =>
           \E u \in DOMAIN threads.threads :
             LET th == threads.threads[u]
                 th2 == threads'.threads[u]
                 me == threads.threads[t]
             IN  /\ \E c \in Calls(t) : c.op = "unpark" /\ c.obj = u
                 /\ u = t => th2 = th
                 /\ u # t =>
                       /\ \A i \in Tids :
                             th2.causality[i] =
                                 IF me.causality[i] > th.causality[i]
                                 THEN me.causality[i] ELSE th.causality[i]
                       /\ th.state \in {"Blocked", "Yield"} =>
                             th2.state = "Runnable"
                       /\ th.state \in {"Runnable", "Terminated"} =>
                             th2.state = th.state
                       /\ th2 = [th EXCEPT !.causality = th2.causality,
                                           !.state = th2.state]
                 /\ \A v \in DOMAIN threads.threads \ {u} :
                       threads'.threads[v] = threads.threads[v]
                 /\ DOMAIN threads'.threads = DOMAIN threads.threads
                 /\ threads'.active = threads.active
                 /\ threads'.seq_cst_causality = threads.seq_cst_causality]_vars

\* Thread 0 had ended before thread 1 ran at all; thread 1 has stored and
\* unparked thread 0, which has learnt of the store and is still Terminated
C32_Witness ==
    /\ closure = "unpark_dead"
    /\ status = "running"
    /\ len(threads.threads) = 2
    /\ frames[1].pc = 2
    /\ is_terminated(threads.threads[0])
    /\ threads.threads[0].causality[1] >= 1
    /\ threads.threads[0].causality[1] = threads.threads[1].causality[1]

\* Thread 0 yielded and has not run since; thread 1 has unparked it, and it
\* is Runnable
C32_YieldMadeRunnable ==
    /\ closure = "unpark_live"
    /\ len(threads.threads) = 2
    /\ frames[0].pc = 4 /\ frames[0].at = "run"
    /\ frames[1].pc = 2
    /\ is_some(threads.threads[0].last_yield)
    /\ is_runnable(threads.threads[0])
    /\ threads.threads[0].causality[1] >= 1

\* Thread 1 has unparked itself, as its third call
C32_SelfUnparked ==
    /\ closure = "unpark_dead"
    /\ len(threads.threads) = 2
    /\ frames[1].pc = 3
    /\ threads.active = Some(1)

-----------------------------------------------------------------------------
(* Loads after yield_now *)

\* Store i of history H was first seen by thread t no later than the last
\* yield of t
stale(H, i, t, S) ==
    /\ is_some(S.threads[t].last_yield)
    /\ is_some(H[i].first_seen[t])
    /\ unwrap(H[i].first_seen[t]) <= unwrap(S.threads[t].last_yield)

\* C33: once a thread has yielded, no store it had first seen at or before
\* its last yield is a candidate of a later load of that thread, and so none
\* is returned, unless it is the newest store of the history.
C33_NoStaleAfterYield ==
    [][Loads =>
         LET t == last'.thread
             H == objects[last'.obj].history.stores
         IN  /\ last'.index \in elems(last'.cands)
             /\ \A i \in elems(last'.cands) :
                   stale(H, i, t, threads) => i = len(H) - 1]_vars

\* A thread that has yielded has loaded the newer of two stores, the only
\* candidate: it had seen the older one before its yield, and the newer one,
\* not flagged seq_cst, was outside its causality until this load
C33_Witness ==
    /\ last.kind = "load"
    /\ status = "running"
    /\ last.len = 2
    /\ last.index = 1
    /\ last.cands = <<1>>
    /\ stale(objects[last.obj].history.stores, 0, last.thread, threads)
    /\ laststore.first_seen[last.thread] = Some(last.pre[last.thread])
    /\ ~is_seen_by_current(
            [laststore.first_seen EXCEPT ![last.thread] = None],
            [threads EXCEPT !.threads[last.thread].causality = last.pre])
    /\ ~laststore.seq_cst

\* A thread that has yielded has loaded again the only store there is, which
\* it had seen before its yield
C33_NewestReread ==
    /\ last.kind = "load"
    /\ last.len = 1
    /\ last.index = 0
    /\ stale(objects[last.obj].history.stores, 0, last.thread, threads)
    /\ threads.threads[last.thread].causality[last.thread]
           > unwrap(threads.threads[last.thread].last_yield) + 1

-----------------------------------------------------------------------------
(* The candidates of a load *)

\* cands is the stores lo..(n - 1) of a history of n stores, newest first,
\* for some lo: not empty, without gap, the newest store included
range_to_newest(cands, n) ==
    /\ n >= 1
    /\ Len(cands) \in 1..n
    /\ \A k \in 1..Len(cands) : cands[k] = n - k

\* C34: in every state, for every atomic, whichever thread is active and
\* whatever the ordering of the load, the candidates pick_store hands to the
\* Path are not empty, form a range of indices without gap that ends at the
\* newest store, and so contain the newest store; and so did the candidates
\* of every load made.
C34_CandidatesRange ==
    /\ \A o \in DOMAIN objects :
          objects[o].tag = "Atomic" =>
              \A t \in DOMAIN threads.threads, order \in LoadOrderings :
                  range_to_newest(
                      pick_store(objects[o].history,
                                 [threads EXCEPT !.active = Some(t)], order),
                      len(objects[o].history.stores))
    /\ last.kind = "load" =>
          /\ range_to_newest(last.cands, last.len)
          /\ last.index \in elems(last.cands)

\* A SeqCst load by a thread that has yielded, over three stores, had the two
\* newest as candidates and returned the older of the two
C34_Witness ==
    /\ last.kind = "load"
    /\ status = "running"
    /\ last.order = "SeqCst"
    /\ is_some(lastthread.last_yield)
    /\ last.len = 3
    /\ last.cands = <<2, 1>>
    /\ last.index = 1

-----------------------------------------------------------------------------
(* The clock of the active thread *)

\* A load, a store, an rmw or a fence has been made by this step
Synchronized ==
    last' # last /\ last'.kind \in {"load", "store", "rmw", "fence"}

\* C35: every load, store, rmw, failed or not, and fence adds exactly one to
\* the slot the active thread has in its own causality, and leaves the
\* causality of every other thread as it was.  The clock advances after the
\* effect: the store read is marked first seen, and the store written is
\* made, at the clock the thread had before the operation.
C35_ClockAdvancesByOne ==
    [][Synchronized =>
         LET t == last'.thread
             was == threads.threads[t].causality
             now == threads'.threads[t].causality
             H == objects'[last'.obj].history.stores
         IN  /\ threads.active = Some(t)
             /\ last'.pre = was
             /\ now[t] = was[t] + 1
             /\ \A u \in DOMAIN threads.threads \ {t} :
                   threads'.threads[u].causality
                       = threads.threads[u].causality
             /\ DOMAIN threads'.threads = DOMAIN threads.threads
             /\ last'.kind \in {"load", "rmw"} =>
                   /\ is_some(H[last'.index].first_seen[t])
                   /\ unwrap(H[last'.index].first_seen[t]) <= was[t]
             /\ (last'.kind = "store" \/ (last'.kind = "rmw" /\ last'.ok)) =>
                   /\ len(H) = last'.len + 1
                   /\ H[len(H) - 1].first_seen[t] = Some(was[t])]_vars

\* Thread 1 has made an Acquire fence that brought it what thread 0 had
\* released: its own slot is one more than before the fence
C35_Witness ==
    /\ closure = "clocks"
    /\ status = "running"
    /\ last.kind = "fence"
    /\ last.thread = 1
    /\ lastthread.causality[1] = last.pre[1] + 1
    /\ lastthread.causality[0] > last.pre[0]

\* Thread 0 has made an rmw that failed: its own slot is one more than before
C35_FailedRmw ==
    /\ closure = "clocks"
    /\ last.kind = "rmw"
    /\ ~last.ok
    /\ last.thread = 0
    /\ lastthread.causality[0] = last.pre[0] + 1

-----------------------------------------------------------------------------
(* The critical flag *)

\* Thread t is inside a call of critical: the closure it passed is executing
inside(t) == frames[t].crit > 0

\* C36: the critical flag of a thread is set exactly while a closure the
\* thread passed to critical is executing: set inside, a nested call that
\* has returned included, and clear outside, after a return and after a
\* panic.
C36_FlagWhileExecuting ==
    \A t \in DOMAIN frames : threads.threads[t].critical <=> inside(t)

\* What holds: the flag is set when critical is entered, is clear whenever
\* the thread is outside every call of critical, and is cleared by every
\* return from critical, the return of a nested call included, and by a
\* panic inside.
C36_FlagFollowsLastCall ==
    [][\A t \in DOMAIN frames :
         /\ CriticalEnter(t) => threads'.threads[t].critical
         /\ CriticalExit(t) => ~threads'.threads[t].critical
         /\ Panic(t) => ~threads'.threads[t].critical /\ ~inside(t)'
         /\ ~inside(t)' => ~threads'.threads[t].critical
         /\ (~CriticalEnter(t) /\ ~CriticalExit(t) /\ ~Panic(t)) =>
               threads'.threads[t].critical = threads.threads[t].critical]_vars

\* Thread 0 is still inside its outer call of critical, the nested call has
\* returned, and its flag is clear
C36_NestedCleared ==
    /\ closure = "critical"
    /\ status = "running"
    /\ threads.active = Some(0)
    /\ frames[0].crit = 1
    /\ ~threads.threads[0].critical

\* Thread 0 has panicked, and its flag is clear
C36_Panicked ==
    /\ closure = "critical"
    /\ status = "panic"
    /\ threads.active = Some(0)
    /\ ~threads.threads[0].critical
    /\ ~inside(0)

====
